---- MODULE Spec2Model ----
(***************************************************************************)
(* A model of omgfm: the processor pipeline of renderers.CommonMark, the   *)
(* Processor base class and the built-in processors of processors.py, and  *)
(* the tree primitives of ast_tools.py they are built on.                  *)
(*                                                                         *)
(* Three specifications share the module's variables:                      *)
(*   Spec      the CommonMark registry and render pipeline                 *)
(*   SpecMeta  ExtractMetadata applied to bounded texts                    *)
(*   SpecClamp MaxHeadingLevel applied to bounded document trees           *)
(***************************************************************************)
EXTENDS Integers, Sequences, FiniteSets, TLC

VARIABLES
    processors,  \* CommonMark._processors: hook name -> list of {name, processor}
    data,        \* CommonMark.data: the shared result map
    last,        \* the last call made on the CommonMark instance and what it did
    em,          \* an ExtractMetadata call: its input text and its outcome
    mh,          \* a MaxHeadingLevel call: its tree before and after
    tg,          \* a TOCGenerator call: its tree before and after, its data
    nt,          \* a nest_toc_items call: its flat list and the lists it built
    sl,          \* a slugify call: its text and its slug
    rn,          \* a replace_node call: the tree before and after, the freed nodes
    wk           \* a walk generator and its consumer: the events yielded so far

vars == <<processors, data, last, em, mh, tg, nt, sl, rn, wk>>

(***************************************************************************)
(* Bounds                                                                  *)
(***************************************************************************)
\* registered entries, both hooks together
MaxProcs == 2
\* documents are 0..MaxDoc; 0 is the empty (falsy) document
MaxDoc == 2
\* lines of a text handed to ExtractMetadata
MaxLines == 5
\* top-level blocks of a document tree
MaxBlocks == 2
\* calls of a tree processor on one tree
MaxCalls == 2

\* Python's None, for self.processed and self.data
NoneVal == -1

Max(a, b) == IF a >= b THEN a ELSE b
Min(a, b) == IF a <= b THEN a ELSE b

(***************************************************************************)
(* Processor: the callable contract of processors.Processor                *)
(***************************************************************************)
Names == {"meta", "toc"}
Hooks == {"before_parse", "after_parse"}
\* three processors: one that only rewrites the document, one that only
\* extracts data, one that does both
Callables == {"rewrite", "collect", "extract"}

\* Python truthiness of a document or of extracted data: None and the empty
\* value (0 here) are falsy
Truthy(x) == x # NoneVal /\ x # 0

\* process_input of each processor: what it leaves in self.processed and
\* self.data for the document it is given
process_input(p, doc) ==
    CASE p = "rewrite" -> [processed |-> (doc + 1) % (MaxDoc + 1), data |-> NoneVal]
      [] p = "collect" -> [processed |-> NoneVal, data |-> doc % (MaxDoc + 1)]
      [] OTHER         -> [processed |-> (2 * doc) % (MaxDoc + 1), data |-> doc % (MaxDoc + 1)]

\* Processor.__call__: doc = self.processed or doc; return doc, self.data
Call(p, doc) ==
    LET r == process_input(p, doc)
    IN  [doc  |-> IF Truthy(r.processed) THEN r.processed ELSE doc,
         data |-> r.data]

(***************************************************************************)
(* CommonMark: registry                                                    *)
(***************************************************************************)
\* list.insert(index, item): a negative index counts from the end, an index
\* beyond either end is clamped
InsertAt_Append(list, index, item) == Append(list, item)

InsertAt(list, index, item) ==
    LET n == Len(list)
        i == IF index < 0 THEN Max(0, n + index) ELSE Min(index, n)
    IN  SubSeq(list, 1, i) \o <<item>> \o SubSeq(list, i + 1, n)

\* the index argument: None, or an integer
NoIndex == [given |-> FALSE, val |-> 0]
Indexes == {NoIndex} \cup {[given |-> TRUE, val |-> i] : i \in (0 - 1)..(MaxProcs + 1)}

Registered == Len(processors["before_parse"]) + Len(processors["after_parse"])

_register_processor(name, processor, entrypoint, index) ==
    LET item == [name |-> name, processor |-> processor]
    IN  /\ Registered < MaxProcs
        /\ processors' = [processors EXCEPT ![entrypoint] =
               IF index.given THEN InsertAt(@, index.val, item)
                              ELSE Append(@, item)]
        /\ last' = [op |-> "register", entrypoint |-> entrypoint, item |-> item,
                    index |-> index, before |-> processors]
        /\ UNCHANGED <<data, em, mh, tg, nt, sl, rn, wk>>

register_text_processor ==
    \E name \in Names, processor \in Callables, index \in Indexes :
        _register_processor(name, processor, "before_parse", index)

register_ast_processor ==
    \E name \in Names, processor \in Callables, index \in Indexes :
        _register_processor(name, processor, "after_parse", index)

\* self._processors[entrypoint].pop(name): list.pop takes an integer index,
\* name is a string, so the call raises TypeError and pops nothing
deregister(name, entrypoint) ==
    /\ last' = [op |-> "deregister", entrypoint |-> entrypoint, name |-> name,
                error |-> "TypeError", returned |-> <<>>, before |-> processors]
    /\ UNCHANGED <<processors, data, em, mh, tg, nt, sl, rn, wk>>

deregister_text_processor == \E name \in Names : deregister(name, "before_parse")

deregister_ast_processor == \E name \in Names : deregister(name, "after_parse")

(***************************************************************************)
(* CommonMark: running a hook, render                                      *)
(***************************************************************************)
\* dict.update({name: value})
Update(dat, name, value) ==
    [k \in (DOMAIN dat) \cup {name} |-> IF k = name THEN value ELSE dat[k]]

\* if data: self.data.update({item['name']: data})
MergeData_KeepFirst(dat, name, extracted) ==
    IF Truthy(extracted) /\ name \notin DOMAIN dat
    THEN Update(dat, name, extracted) ELSE dat

MergeData(dat, name, extracted) ==
    IF Truthy(extracted) THEN Update(dat, name, extracted) ELSE dat

\* the loop of _run_processors over the entries `items`, from document `doc`
\* and result map `dat`; calls records each invocation
RECURSIVE RunItems(_, _, _)
RunItems(items, doc, dat) ==
    IF items = <<>> THEN [doc |-> doc, data |-> dat, calls |-> <<>>]
    ELSE LET item == Head(items)
             res  == Call(item.processor, doc)
             dat2 == MergeData(dat, item.name, res.data)
             rest == RunItems(Tail(items), res.doc, dat2)
         IN  [doc   |-> rest.doc,
              data  |-> rest.data,
              calls |-> <<[name |-> item.name, processor |-> item.processor,
                           given |-> doc, returned |-> res.doc,
                           extracted |-> res.data]>> \o rest.calls]

_run_processors(doc, entrypoint, dat) == RunItems(processors[entrypoint], doc, dat)

\* the external parser: the tree (a non-null node) it makes of a text
Parse(text) == text + 1

\* self.data = {} at the start of every render
render_FreshData(text) ==
    LET pre  == _run_processors(text, "before_parse", <<>>)
        doc  == Parse(pre.doc)
        post == _run_processors(doc, "after_parse", pre.data)
    IN  /\ data' = post.data
        /\ last' = [op |-> "render", text |-> text, data0 |-> data,
                    pre |-> pre, parsed |-> doc, post |-> post,
                    rendered |-> doc, result |-> post.data]
        /\ UNCHANGED <<processors, em, mh, tg, nt, sl, rn, wk>>

\* CommonMark.render: the text hook, the parser, the tree hook (its return
\* value is dropped), the renderer on the parser's tree
render(text) ==
    LET pre  == _run_processors(text, "before_parse", data)
        doc  == Parse(pre.doc)
        post == _run_processors(doc, "after_parse", pre.data)
    IN  /\ data' = post.data
        /\ last' = [op |-> "render", text |-> text, data0 |-> data,
                    pre |-> pre, parsed |-> doc, post |-> post,
                    rendered |-> doc, result |-> post.data]
        /\ UNCHANGED <<processors, em, mh, tg, nt, sl, rn, wk>>

Render == \E text \in 0..MaxDoc : render(text)

(***************************************************************************)
(* Specification of the pipeline                                           *)
(***************************************************************************)
EmIdle == [phase |-> "idle"]
MhIdle == [phase |-> "idle"]
TgIdle == [phase |-> "idle"]
NtIdle == [phase |-> "idle"]
SlIdle == [phase |-> "idle"]
RnIdle == [phase |-> "idle"]
WkIdle == [phase |-> "idle"]

Init ==
    /\ processors = [h \in Hooks |-> <<>>]
    /\ data = <<>>
    /\ last = [op |-> "init"]
    /\ em = EmIdle
    /\ mh = MhIdle
    /\ tg = TgIdle
    /\ nt = NtIdle
    /\ sl = SlIdle
    /\ rn = RnIdle
    /\ wk = WkIdle

Next ==
    \/ register_text_processor
    \/ register_ast_processor
    \/ deregister_text_processor
    \/ deregister_ast_processor
    \/ Render

Spec == Init /\ [][Next]_vars

(***************************************************************************)
(* ExtractMetadata (processors.py).  A text is a sequence of characters.   *)
(***************************************************************************)
IsNewline(c) == c \in {"\n", "\r"}
\* the regular expression class \s, and what str.strip removes
IsSpace(c) == c \in {" ", "\t", "\n", "\r"}

\* the least element of a set of positions, or `default` for the empty set
Least(S, default) == IF S = {} THEN default ELSE CHOOSE x \in S : \A y \in S : x <= y

\* how many characters from position p on are dashes / are white space /
\* are not a line feed ('.' matches everything but "\n")
DashRun(t, p) == Least({q \in p..Len(t) : t[q] # "-"}, Len(t) + 1) - p
SpaceRun(t, p) == Least({q \in p..Len(t) : ~IsSpace(t[q])}, Len(t) + 1) - p
LineRest(t, p) == Least({q \in p..Len(t) : t[q] = "\n"}, Len(t) + 1) - p

\* -{3,}[\r\n] at position p: the position after it, or 0.  The dashes are
\* followed by a line break, so the greedy run is the only way to match.
Delimiter(t, p) ==
    LET d == DashRun(t, p)
    IN  IF d >= 3 /\ p + d <= Len(t) /\ IsNewline(t[p + d]) THEN p + d + 1 ELSE 0

\* ^ under re.MULTILINE: the start of the text or just after a "\n"
AtLineStart(t, p) == p = 1 \/ t[p - 1] = "\n"

\* ^-{3,}[\r\n] at position e: the position after it, or 0
Closing(t, e) == IF AtLineStart(t, e) THEN Delimiter(t, e) ELSE 0

\* the ends of one match of (.*\s*[\r\n]) from position s, in the order the
\* backtracking matcher tries them: .* greedy (a, from the end of the line
\* down), then \s* greedy (b, from the end of the white space down), then a
\* line break at b
RECURSIVE WsEnds(_, _, _)
WsEnds(t, a, b) ==
    IF b < a THEN <<>>
    ELSE (IF b <= Len(t) /\ IsNewline(t[b]) THEN <<b + 1>> ELSE <<>>)
         \o WsEnds(t, a, b - 1)

RECURSIVE DotEnds(_, _, _)
DotEnds(t, s, a) ==
    IF a < s THEN <<>>
    ELSE WsEnds(t, a, a + SpaceRun(t, a)) \o DotEnds(t, s, a - 1)

IterEnds(t, s) == DotEnds(t, s, s + LineRest(t, s))

\* ((.*\s*[\r\n])+?) followed by the closing delimiter: after each
\* repetition the lazy +? first tries to stop (the closing delimiter must
\* match there; the final group matches any rest), then to repeat, then the
\* next way to match the repetition.  The end of group 2, or 0.
RECURSIVE TryEnds(_, _)
TryEnds(t, ends) ==
    IF ends = <<>> THEN 0
    ELSE LET e == Head(ends)
         IN  IF Closing(t, e) # 0 THEN e
             ELSE LET r == TryEnds(t, IterEnds(t, e))
                  IN  IF r # 0 THEN r ELSE TryEnds(t, Tail(ends))

NoMatch == [found |-> FALSE]

\* the pattern matched at position p: group(2), and group(4), which
\* ((.*[\r\n]*)+) makes everything after the closing delimiter
MatchAt(t, p) ==
    LET bs == Delimiter(t, p)
        e  == IF bs = 0 THEN 0 ELSE TryEnds(t, IterEnds(t, bs))
    IN  IF e = 0 THEN NoMatch
        ELSE [found |-> TRUE, start |-> p,
              group2 |-> SubSeq(t, bs, e - 1),
              group4 |-> SubSeq(t, Closing(t, e), Len(t))]

\* matcher.search(text): the match at the leftmost position that has one
RECURSIVE SearchFrom(_, _)
SearchFrom(t, p) ==
    IF p > Len(t) + 1 THEN NoMatch
    ELSE LET m == MatchAt(t, p)
         IN  IF m.found THEN m ELSE SearchFrom(t, p + 1)

Search(t) == SearchFrom(t, 1)

\* str.split(sep) for a one-character separator
RECURSIVE Split(_, _)
Split(s, sep) ==
    LET i == Least({q \in 1..Len(s) : s[q] = sep}, 0)
    IN  IF i = 0 THEN <<s>>
        ELSE <<SubSeq(s, 1, i - 1)>> \o Split(SubSeq(s, i + 1, Len(s)), sep)

\* str.strip()
Strip(s) ==
    LET keep == {q \in 1..Len(s) : ~IsSpace(s[q])}
    IN  IF keep = {} THEN <<>>
        ELSE SubSeq(s, Least(keep, 0), CHOOSE x \in keep : \A y \in keep : y <= x)

\* the loop of key_value_to_dict over the lines: line.strip(), skip a blank
\* line, line.split(':'), data[line[0]] = line[1] (IndexError when the line
\* has no ':')
RECURSIVE KvLines(_, _)
KvLines(lines, dat) ==
    IF lines = <<>> THEN [error |-> "none", data |-> dat]
    ELSE LET line == Strip(Head(lines))
         IN  IF line = <<>> THEN KvLines(Tail(lines), dat)
             ELSE LET parts == Split(line, ":")
                  IN  IF Len(parts) < 2 THEN [error |-> "IndexError", data |-> dat]
                      ELSE KvLines(Tail(lines), Update(dat, parts[1], parts[2]))

\* key_value_to_dict(string): string is None when nothing matched, and
\* None.split raises AttributeError
key_value_to_dict(metadata) ==
    IF metadata.none THEN [error |-> "AttributeError", data |-> <<>>]
    ELSE KvLines(Split(metadata.val, "\n"), <<>>)

\* ExtractMetadata.process_input with the default loader: self.data and
\* self.processed, or the exception the loader raised
ExtractMetadata_process_input(text) ==
    LET m        == Search(text)
        metadata == IF m.found THEN [none |-> FALSE, val |-> m.group2]
                               ELSE [none |-> TRUE]
        out      == IF m.found THEN m.group4 ELSE text
        loaded   == key_value_to_dict(metadata)
    IN  [error |-> loaded.error, matched |-> m.found, processed |-> out,
         data |-> loaded.data]

\* Processor.__call__ on an ExtractMetadata: doc = self.processed or doc (the
\* empty text is falsy); return doc, self.data
ExtractMetadata_call(text) ==
    LET r == ExtractMetadata_process_input(text)
    IN  [error |-> r.error, matched |-> r.matched,
         doc  |-> IF r.processed # <<>> THEN r.processed ELSE text,
         data |-> r.data]

\* the lines the texts are made of
Dash3   == <<"-", "-", "-">>
Dash4   == <<"-", "-", "-", "-">>
FooBar  == <<"f", "o", "o", ":", " ", "b", "a", "r">>
Body    == <<"b", "o", "d", "y">>
Blank   == <<>>
Colons  == <<"a", ":", "b", ":", "c">>
Padded  == <<" ", "a", " ", ":", " ", "b", " ">>
LineSet == {Dash3, Dash4, FooBar, Body, Blank, Colons, Padded}

\* "\n".join(lines), with or without a final line break
RECURSIVE Join(_)
Join(lines) ==
    IF lines = <<>> THEN <<>>
    ELSE IF Len(lines) = 1 THEN Head(lines)
    ELSE Head(lines) \o <<"\n">> \o Join(Tail(lines))

\* the texts of at most n lines
Texts(n) ==
    {<<>>} \cup
    UNION {{Join(ls), Join(ls) \o <<"\n">>} :
             ls \in UNION {[1..k -> LineSet] : k \in 1..n}}

InitMeta ==
    /\ processors = [h \in Hooks |-> <<>>]
    /\ data = <<>>
    /\ last = [op |-> "init"]
    /\ em \in {[phase |-> "ready", text |-> t] : t \in Texts(MaxLines)}
    /\ mh = MhIdle
    /\ tg = TgIdle
    /\ nt = NtIdle
    /\ sl = SlIdle
    /\ rn = RnIdle
    /\ wk = WkIdle

\* em = ExtractMetadata(); processed, data = em(text)
CallExtractMetadata ==
    /\ em.phase = "ready"
    /\ em' = [phase |-> "done", text |-> em.text, out |-> ExtractMetadata_call(em.text)]
    /\ UNCHANGED <<processors, data, last, mh, tg, nt, sl, rn, wk>>

NextMeta == CallExtractMetadata

SpecMeta == InitMeta /\ [][NextMeta]_vars

(***************************************************************************)
(* Document trees (ast_tools.py).  A tree maps each node (1 is the         *)
(* document root) to its type, attributes, parent (0: none) and children.  *)
(***************************************************************************)
\* the node types the iterator never enters the children of
LeafTypes == {"html_block", "thematic_break", "code_block", "text",
              "softbreak", "linebreak", "code", "html_inline"}

FirstChild(t, n) == IF t[n].children = <<>> THEN 0 ELSE t[n].children[1]

NextSibling(t, n) ==
    IF t[n].parent = 0 THEN 0
    ELSE LET sibs == t[t[n].parent].children
             i    == CHOOSE k \in 1..Len(sibs) : sibs[k] = n
         IN  IF i < Len(sibs) THEN sibs[i + 1] ELSE 0

\* new_iterator(root): nothing is current, the root is entered next
new_iterator(root) ==
    [root |-> root, ev |-> "NONE", node |-> 0, next_ev |-> "ENTER", next_node |-> root]

\* iter_next(iterator): make the next event current and look one event
\* ahead: into the first child of a container just entered (or to its own
\* exit when it has none), else to the next sibling, else up to the parent's
\* exit; the walk is done after the root
iter_next(t, it) ==
    IF it.next_ev = "DONE" THEN [it EXCEPT !.ev = "DONE"]
    ELSE LET ev  == it.next_ev
             cur == it.next_node
             nxt == IF ev = "ENTER" /\ t[cur].type \notin LeafTypes
                    THEN IF FirstChild(t, cur) = 0
                         THEN [ev |-> "EXIT", node |-> cur]
                         ELSE [ev |-> "ENTER", node |-> FirstChild(t, cur)]
                    ELSE IF cur = it.root THEN [ev |-> "DONE", node |-> 0]
                    ELSE IF NextSibling(t, cur) # 0
                         THEN [ev |-> "ENTER", node |-> NextSibling(t, cur)]
                    ELSE IF t[cur].parent # 0
                         THEN [ev |-> "EXIT", node |-> t[cur].parent]
                    ELSE [ev |-> "DONE", node |-> 0]
         IN  [it EXCEPT !.ev = ev, !.node = cur,
                        !.next_ev = nxt.ev, !.next_node = nxt.node]

\* get_heading_level(node): 0 when node is not a heading
get_heading_level(t, n) == IF t[n].type = "heading" THEN t[n].level ELSE 0

\* set_heading_level(node, level): refused (nothing changes) unless node is
\* a heading and level is 1..6
set_heading_level(t, n, level) ==
    IF t[n].type = "heading" /\ level >= 1 /\ level <= 6
    THEN [t EXCEPT ![n].level = level] ELSE t

(***************************************************************************)
(* MaxHeadingLevel (processors.py)                                         *)
(***************************************************************************)
\* the loop of enforce_max_heading_level over walk(root_node), from the
\* iterator state `it`: at each heading entered, the range check, then the
\* clamp
RECURSIVE ClampLoop_SetAll(_, _, _)
ClampLoop_SetAll(t, it, max_level) ==
    LET it2 == iter_next(t, it)
    IN  IF it2.ev = "DONE" THEN [tree |-> t, error |-> "none"]
        ELSE IF it2.ev = "ENTER" /\ t[it2.node].type = "heading"
        THEN IF max_level > 6 \/ max_level < 0
             THEN [tree |-> t, error |-> "ValueError"]
             ELSE ClampLoop_SetAll(set_heading_level(t, it2.node, max_level), it2, max_level)
        ELSE ClampLoop_SetAll(t, it2, max_level)

RECURSIVE ClampLoop(_, _, _)
ClampLoop(t, it, max_level) ==
    LET it2 == iter_next(t, it)
    IN  IF it2.ev = "DONE" THEN [tree |-> t, error |-> "none"]
        ELSE IF it2.ev = "ENTER" /\ t[it2.node].type = "heading"
        THEN IF max_level > 6 \/ max_level < 0
             THEN [tree |-> t, error |-> "ValueError"]
             ELSE IF get_heading_level(t, it2.node) > max_level
                  THEN ClampLoop(set_heading_level(t, it2.node, max_level), it2, max_level)
                  ELSE ClampLoop(t, it2, max_level)
        ELSE ClampLoop(t, it2, max_level)

enforce_max_heading_level(t, root, max_level) ==
    ClampLoop(t, new_iterator(root), max_level)

\* the text of the text nodes of the bounded documents
OneText == <<"t">>

\* the blocks of the bounded documents, each a chain of three nodes: a
\* heading of each level holding emphasised text, a block quote holding a
\* heading holding text, a paragraph holding emphasised text
BlockKinds ==
    {[outer |-> "heading", mid |-> "emph", leaf |-> "text", level |-> l,
      text |-> OneText, more |-> <<>>] : l \in 1..6}
        \cup {[outer |-> "block_quote", mid |-> "heading", leaf |-> "text", level |-> l,
                text |-> OneText, more |-> <<>>] : l \in {2, 5}}
        \cup {[outer |-> "paragraph", mid |-> "emph", leaf |-> "text", level |-> 0,
                text |-> OneText, more |-> <<>>]}

\* a node as the library makes it (cmark_node_new): no parent, no children,
\* no attributes
NewNode(type) ==
    [type |-> type, level |-> 0, literal |-> <<>>, line |-> 0,
     url |-> <<>>, title |-> <<>>, list_type |-> "no_list",
     parent |-> 0, children |-> <<>>]

\* the tree the parser makes of a sequence of blocks: node 1 is the
\* document; block i (on line i) is node 4i - 2, its child node 4i - 1, the
\* leaf under that 4i and, when the block has more text (b.more), a second
\* text node 4i + 1 after that child
MkTree(blocks) ==
    LET used == {1} \cup UNION {{4 * i - 2, 4 * i - 1, 4 * i} \cup
                                  (IF blocks[i].more = <<>> THEN {} ELSE {4 * i + 1})
                                    : i \in 1..Len(blocks)}
    IN  [n \in used |->
        IF n = 1
        THEN [NewNode("document") EXCEPT
                !.line = 1,
                !.children = [i \in 1..Len(blocks) |-> 4 * i - 2]]
        ELSE LET i == (n + 2) \div 4
                 b == blocks[i]
                 inner == IF b.mid = "heading" THEN 4 * i - 1 ELSE 4 * i - 2
             IN  IF n = 4 * i - 2
                 THEN [NewNode(b.outer) EXCEPT
                         !.level = IF b.outer = "heading" THEN b.level ELSE 0,
                         !.line = i, !.parent = 1,
                         !.children = IF b.more # <<>> /\ inner = n
                                      THEN <<n + 1, n + 3>> ELSE <<n + 1>>]
                 ELSE IF n = 4 * i - 1
                 THEN [NewNode(b.mid) EXCEPT
                         !.level = IF b.mid = "heading" THEN b.level ELSE 0,
                         !.line = i, !.parent = n - 1,
                         !.children = IF b.more # <<>> /\ inner = n
                                      THEN <<n + 1, n + 2>> ELSE <<n + 1>>]
                 ELSE IF n = 4 * i
                 THEN [NewNode(b.leaf) EXCEPT
                         !.literal = b.text, !.line = i, !.parent = n - 1]
                 ELSE [NewNode("text") EXCEPT
                         !.literal = b.more, !.line = i, !.parent = inner]]

\* the documents of at most n blocks
Trees(n) == {MkTree(bs) : bs \in UNION {[1..k -> BlockKinds] : k \in 0..n}}

\* the max_level arguments tried: the documented range 1..6 and its
\* neighbours
MaxLevels == (0 - 1)..7

InitClamp ==
    /\ processors = [h \in Hooks |-> <<>>]
    /\ data = <<>>
    /\ last = [op |-> "init"]
    /\ em = EmIdle
    /\ mh \in {[phase |-> "ready", tree |-> t, calls |-> 0] : t \in Trees(MaxBlocks)}
    /\ tg = TgIdle
    /\ nt = NtIdle
    /\ sl = SlIdle
    /\ rn = RnIdle
    /\ wk = WkIdle

\* MaxHeadingLevel(max_level=max_level)(root_node) after the calls recorded
\* in m: process_input sets neither self.processed nor self.data, the tree
\* is changed in place
MaxHeadingLevel_call(m, max_level) ==
    LET r == enforce_max_heading_level(m.tree, 1, max_level)
    IN  [phase |-> "done", tree |-> r.tree, calls |-> m.calls + 1,
         orig |-> IF m.calls = 0 THEN m.tree ELSE m.orig,
         before |-> m.tree, max_level |-> max_level,
         error |-> r.error,
         prev_max |-> IF m.calls = 0 THEN NoneVal ELSE m.max_level,
         prev_error |-> IF m.calls = 0 THEN "none" ELSE m.error]

CallMaxHeadingLevel ==
    \E max_level \in MaxLevels :
        /\ mh.calls < MaxCalls
        /\ mh' = MaxHeadingLevel_call(mh, max_level)
        /\ UNCHANGED <<processors, data, last, em, tg, nt, sl, rn, wk>>

NextClamp == CallMaxHeadingLevel

SpecClamp == InitClamp /\ [][NextClamp]_vars

(***************************************************************************)
(* Creating, linking and destroying nodes (ast_tools.py).  A heap is the   *)
(* tree function over every node made so far, the set of freed nodes and   *)
(* the last node made.                                                     *)
(***************************************************************************)
BlockTypes == {"document", "block_quote", "list", "item", "code_block",
               "html_block", "custom_block", "paragraph", "heading",
               "thematic_break"}
InlineTypes == {"text", "softbreak", "linebreak", "code", "html_inline",
                "custom_inline", "emph", "strong", "link", "image"}

\* the library's rule for which node types a node may hold
can_contain_type(ptype, ctype) ==
    IF ctype = "document" THEN FALSE
    ELSE IF ptype \in {"document", "block_quote", "item"}
    THEN ctype \in BlockTypes /\ ctype # "item"
    ELSE IF ptype = "list" THEN ctype = "item"
    ELSE IF ptype = "custom_block" THEN TRUE
    ELSE IF ptype \in {"paragraph", "heading", "emph", "strong", "link", "image",
                       "custom_inline"}
    THEN ctype \in InlineTypes
    ELSE FALSE

\* a is n or one of n's ancestors
RECURSIVE IsAncestorOrSelf(_, _, _)
IsAncestorOrSelf(t, a, n) ==
    IF n = 0 THEN FALSE
    ELSE IF a = n THEN TRUE
    ELSE IsAncestorOrSelf(t, a, t[n].parent)

\* node may take child: child is not node or an ancestor of node, and the
\* types allow it
S_can_contain(t, node, child) ==
    /\ node # 0 /\ child # 0
    /\ ~IsAncestorOrSelf(t, child, node)
    /\ can_contain_type(t[node].type, t[child].type)

\* n and every node below it
RECURSIVE Subtree(_, _)
Subtree(t, n) ==
    {n} \cup UNION {Subtree(t, t[n].children[k]) : k \in 1..Len(t[n].children)}

\* the position of n among the entries of seq (0: not there)
IndexOf(seq, n) == Least({k \in 1..Len(seq) : seq[k] = n}, 0)

\* unlink_node(node): node leaves its parent's children and has no parent
unlink_node(t, n) ==
    IF t[n].parent = 0 THEN t
    ELSE LET p == t[n].parent
             i == IndexOf(t[p].children, n)
         IN  [t EXCEPT ![p].children = SubSeq(@, 1, i - 1) \o SubSeq(@, i + 1, Len(@)),
                       ![n].parent = 0]

\* free_node(node): node is unlinked, node and everything below it is freed
free_node(h, n) ==
    [h EXCEPT !.tree = unlink_node(h.tree, n), !.freed = @ \cup Subtree(h.tree, n)]

\* delete_node(node): unlink, then free
delete_node(h, n) == free_node([h EXCEPT !.tree = unlink_node(h.tree, n)], n)

\* the heap a parsed tree lives in: nothing freed, top the last node made
HeapOf(t) ==
    [tree |-> t, freed |-> {},
     top |-> CHOOSE m \in DOMAIN t : \A k \in DOMAIN t : k <= m]

\* new_node(ntype): the heap with one more node, and that node
new_node(h, type) ==
    LET n == h.top + 1
    IN  [heap |-> [h EXCEPT !.top = n,
                            !.tree = [k \in DOMAIN h.tree \cup {n} |->
                                        IF k = n THEN NewNode(type) ELSE h.tree[k]]],
         node |-> n]

\* child (unlinked first) becomes the entry at position i of node's children
LinkAt(t, node, child, i) ==
    LET u == unlink_node(t, child)
    IN  [u EXCEPT ![node].children = SubSeq(@, 1, i - 1) \o <<child>> \o SubSeq(@, i, Len(@)),
                  ![child].parent = node]

\* insert_sibling_before(node, sibling): 0 and nothing done when node has no
\* parent or its parent may not hold sibling
insert_sibling_before(t, node, sibling) ==
    IF t[node].parent = 0 \/ ~S_can_contain(t, t[node].parent, sibling)
    THEN [status |-> 0, tree |-> t]
    ELSE LET u == unlink_node(t, sibling)
         IN  [status |-> 1,
              tree |-> LinkAt(u, u[node].parent, sibling,
                              IndexOf(u[u[node].parent].children, node))]

\* append_child(node, child), prepend_child(node, child)
append_child(t, node, child) ==
    IF ~S_can_contain(t, node, child) THEN [status |-> 0, tree |-> t]
    ELSE LET u == unlink_node(t, child)
         IN  [status |-> 1, tree |-> LinkAt(u, node, child, Len(u[node].children) + 1)]

prepend_child(t, node, child) ==
    IF ~S_can_contain(t, node, child) THEN [status |-> 0, tree |-> t]
    ELSE [status |-> 1, tree |-> LinkAt(t, node, child, 1)]

\* the library's node_replace: new_node is inserted before old_node, then
\* old_node is unlinked; 0 and nothing done when the insertion fails
node_replace(t, old_node, new) ==
    LET ins == insert_sibling_before(t, old_node, new)
    IN  IF ins.status = 0 THEN [status |-> 0, tree |-> t]
        ELSE [status |-> 1, tree |-> unlink_node(ins.tree, old_node)]

\* replace_node(old_node, new_node): status = node_replace(...);
\* delete_node(old_node); return status
replace_node(h, old_node, new) ==
    LET r == node_replace(h.tree, old_node, new)
    IN  [status |-> r.status,
         heap |-> delete_node([h EXCEPT !.tree = r.tree], old_node)]

(***************************************************************************)
(* TOCGenerator.slugify (processors.py), on texts as character sequences   *)
(***************************************************************************)
\* characters of a slugified text
MaxSlug == 4

UpperCase == <<"A", "B", "C", "D", "E", "F", "G", "H", "I", "J", "K", "L", "M",
               "N", "O", "P", "Q", "R", "S", "T", "U", "V", "W", "X", "Y", "Z">>
LowerCase == <<"a", "b", "c", "d", "e", "f", "g", "h", "i", "j", "k", "l", "m",
               "n", "o", "p", "q", "r", "s", "t", "u", "v", "w", "x", "y", "z">>
DigitChars == <<"0", "1", "2", "3", "4", "5", "6", "7", "8", "9">>

Range(seq) == {seq[k] : k \in 1..Len(seq)}

\* str.lower(), one character
LowerChar(c) ==
    IF c \in Range(UpperCase) THEN LowerCase[IndexOf(UpperCase, c)] ELSE c

\* the regular expression class \w (its complement is \W)
IsWord(c) == c \in Range(UpperCase) \cup Range(LowerCase) \cup Range(DigitChars) \cup {"_"}

\* text.replace(old, new) for one-character strings
ReplaceChar(text, old, new) ==
    [k \in 1..Len(text) |-> IF text[k] = old THEN new ELSE text[k]]

\* re.sub(r'\s+', ' ', text)
RECURSIVE CollapseSpace(_)
CollapseSpace(text) ==
    IF text = <<>> THEN <<>>
    ELSE IF IsSpace(Head(text))
    THEN <<" ">> \o CollapseSpace(SubSeq(text, 1 + SpaceRun(text, 1), Len(text)))
    ELSE <<Head(text)>> \o CollapseSpace(Tail(text))

\* the steps of slugify, in the order of the code
slugify_SubFirst(text) ==
    LET t1 == [k \in 1..Len(text) |-> LowerChar(text[k])]
        t3 == SelectSeq(t1, IsWord)
        t2 == ReplaceChar(ReplaceChar(ReplaceChar(ReplaceChar(t3, " ", "_"), "-", "_"),
                                      ".", "_"), "/", "_")
        t4 == ReplaceChar(t2, "_", " ")
        t5 == CollapseSpace(t4)
        t6 == Strip(t5)
    IN  ReplaceChar(t6, " ", "-")

slugify(text) ==
    LET t1 == [k \in 1..Len(text) |-> LowerChar(text[k])]
        t2 == ReplaceChar(ReplaceChar(ReplaceChar(ReplaceChar(t1, " ", "_"), "-", "_"),
                                      ".", "_"), "/", "_")
        t3 == SelectSeq(t2, IsWord)
        t4 == ReplaceChar(t3, "_", " ")
        t5 == CollapseSpace(t4)
        t6 == Strip(t5)
    IN  ReplaceChar(t6, " ", "-")

\* the characters the slugified texts are made of, and the documented example
SlugChars == {"A", "b", "1", " ", "-", ".", "/", "_", ",", "\t"}
HelloWorld == <<"H", "e", "l", "l", "o", ",", " ", "W", "o", "r", "l", "d", "!">>

SlugTexts(n) == {HelloWorld} \cup UNION {[1..k -> SlugChars] : k \in 0..n}

InitSlug ==
    /\ processors = [h \in Hooks |-> <<>>]
    /\ data = <<>>
    /\ last = [op |-> "init"]
    /\ em = EmIdle
    /\ mh = MhIdle
    /\ tg = TgIdle
    /\ nt = NtIdle
    /\ sl \in {[phase |-> "ready", text |-> t] : t \in SlugTexts(MaxSlug)}
    /\ rn = RnIdle
    /\ wk = WkIdle

\* TOCGenerator().slugify(text)
CallSlugify ==
    /\ sl.phase = "ready"
    /\ sl' = [phase |-> "done", text |-> sl.text, slug |-> slugify(sl.text)]
    /\ UNCHANGED <<processors, data, last, em, mh, tg, nt, rn, wk>>

NextSlug == CallSlugify

SpecSlug == InitSlug /\ [][NextSlug]_vars

(***************************************************************************)
(* TOCGenerator.nest_toc_items (processors.py).  The heading records are   *)
(* the entries of toc_list; a list of records is a sequence of their       *)
(* positions in toc_list, and children maps each record to its list.       *)
(***************************************************************************)
\* records of a flat list
MaxHeads == 4

\* dict equality, as list.index compares: the fields, and the children
\* lists entry by entry
RECURSIVE DictEq(_, _, _, _)
DictEq(recs, children, a, b) ==
    /\ recs[a] = recs[b]
    /\ Len(children[a]) = Len(children[b])
    /\ \A k \in 1..Len(children[a]) :
          k <= Len(children[b]) => DictEq(recs, children, children[a][k], children[b][k])

\* parent_list.pop(parent_list.index(parent))
PopIndexOf(recs, children, parent_list, parent) ==
    LET i == Least({k \in 1..Len(parent_list) :
                      DictEq(recs, children, parent_list[k], parent)}, 0)
    IN  SubSeq(parent_list, 1, i - 1) \o SubSeq(parent_list, i + 1, Len(parent_list))

\* for parent in reversed(parent_list): if level <= parent['level']: pop it.
\* The reversed iterator is at position i and ends when i is past the end
\* of the list as it is by then.
RECURSIVE PopParents_All(_, _, _, _, _)
PopParents_All(recs, children, parent_list, level, i) ==
    IF i < 1 \/ i > Len(parent_list) THEN parent_list
    ELSE PopParents_All(recs, children,
                        PopIndexOf(recs, children, parent_list, parent_list[i]),
                        level, i - 1)

\* the popping loop left out: every parent stays on the list
PopParents_None(recs, children, parent_list, level, i) == parent_list

RECURSIVE PopParents(_, _, _, _, _)
PopParents(recs, children, parent_list, level, i) ==
    IF i < 1 \/ i > Len(parent_list) THEN parent_list
    ELSE LET parent == parent_list[i]
         IN  PopParents(recs, children,
                        IF level <= recs[parent].level
                        THEN PopIndexOf(recs, children, parent_list, parent)
                        ELSE parent_list,
                        level, i - 1)

\* the loop `for item in toc_list` from entry k on
RECURSIVE NestLoop(_, _, _)
NestLoop(recs, st, k) ==
    IF k > Len(recs) THEN st
    ELSE LET level == recs[k].level
             popped == IF level < st.last_level
                       THEN PopParents(recs, st.children, st.parent_list, level,
                                       Len(st.parent_list))
                       ELSE st.parent_list
             last_level == IF level < st.last_level THEN level ELSE st.last_level
         IN  IF level = last_level
             THEN IF popped # <<>>
                  THEN NestLoop(recs,
                         [st EXCEPT !.children[popped[Len(popped)]] = Append(@, k),
                                    !.parent_list = popped, !.last_level = last_level,
                                    !.last_item = k], k + 1)
                  ELSE NestLoop(recs,
                         [st EXCEPT !.processed = Append(@, k),
                                    !.parent_list = popped, !.last_level = last_level,
                                    !.last_item = k], k + 1)
             ELSE NestLoop(recs,
                    [st EXCEPT !.children[st.last_item] = Append(@, k),
                               !.parent_list = Append(popped, st.last_item),
                               !.last_level = level,
                               !.last_item = k], k + 1)

\* the first record read as toc_list[0] and left on the list, so the loop
\* meets it again
nest_toc_items_NoPop(recs) ==
    IF Len(recs) = 0 THEN [processed |-> <<>>, children |-> <<>>]
    ELSE LET st == NestLoop(recs,
                     [processed |-> <<1>>, children |-> [k \in 1..Len(recs) |-> <<>>],
                      parent_list |-> <<>>, last_item |-> 1,
                      last_level |-> recs[1].level], 1)
         IN  [processed |-> st.processed, children |-> st.children]

\* nest_toc_items(toc_list): the list of roots and every record's children
nest_toc_items(recs) ==
    IF Len(recs) = 0 THEN [processed |-> <<>>, children |-> <<>>]
    ELSE LET st == NestLoop(recs,
                     [processed |-> <<1>>, children |-> [k \in 1..Len(recs) |-> <<>>],
                      parent_list |-> <<>>, last_item |-> 1,
                      last_level |-> recs[1].level], 2)
         IN  [processed |-> st.processed, children |-> st.children]

\* the flat lists of m records: any levels, on lines 1, 2, ..., titled
\* A, B, ...
HeadingLists(m) ==
    {[k \in 1..m |-> [level |-> ls[k], text |-> <<UpperCase[k]>>, line_number |-> k]] :
        ls \in [1..m -> 1..6]}

InitNest ==
    /\ processors = [h \in Hooks |-> <<>>]
    /\ data = <<>>
    /\ last = [op |-> "init"]
    /\ em = EmIdle
    /\ mh = MhIdle
    /\ tg = TgIdle
    /\ nt \in {[phase |-> "ready", toc_list |-> l] :
                 l \in UNION {HeadingLists(m) : m \in 0..MaxHeads}}
    /\ sl = SlIdle
    /\ rn = RnIdle
    /\ wk = WkIdle

\* TOCGenerator().nest_toc_items(toc_list)
CallNestTocItems ==
    /\ nt.phase = "ready"
    /\ nt' = [phase |-> "done", toc_list |-> nt.toc_list,
              nested |-> nest_toc_items(nt.toc_list)]
    /\ UNCHANGED <<processors, data, last, em, mh, tg, sl, rn, wk>>

NextNest == CallNestTocItems

SpecNest == InitNest /\ [][NextNest]_vars

(***************************************************************************)
(* TOCGenerator (processors.py): collecting and rewriting the headings     *)
(***************************************************************************)
\* '{}'.format(n) for a natural number: its decimal digits
RECURSIVE Decimal(_)
Decimal(n) ==
    IF n < 10 THEN <<DigitChars[n + 1]>>
    ELSE Decimal(n \div 10) \o <<DigitChars[(n % 10) + 1]>>

\* '{}-{}'.format(line_number, self.slugify(text))
AnchorId_SlugOnly(line_number, text) == slugify(text)

AnchorId(line_number, text) == Decimal(line_number) \o <<"-">> \o slugify(text)

\* '<h{level} id="{_id}">{text}</h{level}>'.format(...)
HeadingMarkup(level, id, text) ==
    <<"<", "h">> \o Decimal(level) \o <<" ", "i", "d", "=", "\"">> \o id
        \o <<"\"", ">">> \o text \o <<"<", "/", "h">> \o Decimal(level) \o <<">">>

\* the inner loop over walk(node): the literal of every text node entered
\* under the heading, in the order of the walk
RECURSIVE TextsUnder(_, _)
TextsUnder(t, it) ==
    LET it2 == iter_next(t, it)
    IN  IF it2.ev = "DONE" THEN <<>>
        ELSE IF it2.ev = "ENTER" /\ t[it2.node].type = "text"
        THEN <<t[it2.node].literal>> \o TextsUnder(t, it2)
        ELSE TextsUnder(t, it2)

\* make_html_node(content=content): a new html_block with that literal
make_html_node(h, content) ==
    LET r == new_node(h, "html_block")
    IN  [heap |-> [r.heap EXCEPT !.tree[r.node].literal = content], node |-> r.node]

\* the loop of set_heading_attributes over walk(root_node), from the
\* iterator state `it`: at the exit of each heading, one record per text
\* node under it when its level is not beyond max_depth, and with inject
\* the heading is replaced by its markup (text is the last text found, ''
\* when none was looked for or found)
RECURSIVE CollectLoop(_, _, _, _, _)

\* after ast_tools.replace_node(node, new_node) returned `swapped`: what it
\* did is noted and the loop goes on in the heap it left
ReplacedHeading(swapped, it2, max_depth, inject, acc, rec) ==
    CollectLoop(swapped.heap, it2, max_depth, inject,
                [acc EXCEPT !.replaced = Append(@, [rec EXCEPT
                                                       !.status = swapped.status])])

\* ast_tools.replace_node(node, new_node), `made` being what make_html_node
\* returned
ReplaceHeading(made, it2, max_depth, inject, acc, rec) ==
    ReplacedHeading(replace_node(made.heap, rec.old, made.node), it2, max_depth,
                    inject, acc, [rec EXCEPT !.new = made.node])

\* the body of the loop for a heading left, `texts` being the literals the
\* inner loop found
AtHeading(h, it2, max_depth, inject, acc, level, line_number, texts) ==
    LET text  == IF texts = <<>> THEN <<>> ELSE texts[Len(texts)]
        found == [k \in 1..Len(texts) |->
                    [level |-> level, text |-> texts[k], line_number |-> line_number]]
        id    == AnchorId(line_number, text)
    IN  IF inject
        THEN ReplaceHeading(make_html_node(h, HeadingMarkup(level, id, text)),
                            it2, max_depth, inject,
                            [acc EXCEPT !.headings = @ \o found],
                            [old |-> it2.node, new |-> 0, id |-> id, level |-> level,
                             text |-> text, line_number |-> line_number,
                             status |-> 0, at |-> Len(acc.events)])
        ELSE CollectLoop(h, it2, max_depth, inject,
                         [acc EXCEPT !.headings = @ \o found])

\* what the outer walk has yielded so far, with the item it2 it yields
\* now: the node, whether it is entered, and whether the node is alive
Yielded(acc, h, it2) ==
    [acc EXCEPT !.events = Append(@, [node |-> it2.node,
                                      entering |-> it2.ev = "ENTER",
                                      live |-> it2.node \notin h.freed])]

\* `if entering and ...`: the headings are handled when they are entered
CollectStep_AtEnter(h, it2, max_depth, inject, acc) ==
    IF it2.ev = "DONE"
    THEN [heap |-> h, headings |-> acc.headings, replaced |-> acc.replaced,
          events |-> acc.events]
    ELSE IF it2.ev = "ENTER" /\ h.tree[it2.node].type = "heading"
    THEN AtHeading(h, it2, max_depth, inject, Yielded(acc, h, it2),
                   get_heading_level(h.tree, it2.node), h.tree[it2.node].line,
                   IF ~(get_heading_level(h.tree, it2.node) > max_depth)
                   THEN TextsUnder(h.tree, new_iterator(it2.node)) ELSE <<>>)
    ELSE CollectLoop(h, it2, max_depth, inject, Yielded(acc, h, it2))

\* one round of the loop, it2 being what the walk yields
CollectStep(h, it2, max_depth, inject, acc) ==
    IF it2.ev = "DONE"
    THEN [heap |-> h, headings |-> acc.headings, replaced |-> acc.replaced,
          events |-> acc.events]
    ELSE IF it2.ev = "EXIT" /\ h.tree[it2.node].type = "heading"
    THEN AtHeading(h, it2, max_depth, inject, Yielded(acc, h, it2),
                   get_heading_level(h.tree, it2.node), h.tree[it2.node].line,
                   IF ~(get_heading_level(h.tree, it2.node) > max_depth)
                   THEN TextsUnder(h.tree, new_iterator(it2.node)) ELSE <<>>)
    ELSE CollectLoop(h, it2, max_depth, inject, Yielded(acc, h, it2))

CollectLoop(h, it, max_depth, inject, acc) ==
    CollectStep(h, iter_next(h.tree, it), max_depth, inject, acc)

\* set_heading_attributes(root_node, max_depth): the heading records, the
\* heap as the replacements left it, and what was replaced by what
set_heading_attributes(h, root_node, max_depth, inject) ==
    CollectLoop(h, new_iterator(root_node), max_depth, inject,
                [headings |-> <<>>, replaced |-> <<>>, events |-> <<>>])

(***************************************************************************)
(* TOCGenerator (processors.py): the fragment, process_input               *)
(***************************************************************************)
\* make_list_node(ordered=False)
make_list_node(h) ==
    LET r == new_node(h, "list")
    IN  [heap |-> [r.heap EXCEPT !.tree[r.node].list_type = "bullet_list"], node |-> r.node]

\* make_link(url, title=title, text=text): a link with a text node under it
make_link(h, url, title, text) ==
    LET l  == new_node(h, "link")
        tn == new_node(l.heap, "text")
        t1 == [tn.heap.tree EXCEPT ![l.node].url = url, ![l.node].title = title,
                                   ![tn.node].literal = text]
    IN  [heap |-> [tn.heap EXCEPT !.tree = append_child(t1, l.node, tn.node).tree],
         node |-> l.node]

\* ast_tools.append_child(node, child) in heap h
AppendTo(h, node, child) == [h EXCEPT !.tree = append_child(@, node, child).tree]

\* the item made for one record: a paragraph, the link, a list item, the
\* link appended to the paragraph and the paragraph to the item
toc_item(h, item) ==
    LET paragraph == new_node(h, "paragraph")
        anchor    == make_link(paragraph.heap,
                               <<"#">> \o AnchorId(item.line_number, item.text),
                               item.text, item.text)
        list_item == new_node(anchor.heap, "item")
    IN  [heap |-> AppendTo(AppendTo(list_item.heap, paragraph.node, anchor.node),
                           list_item.node, paragraph.node),
         node |-> list_item.node]

\* build_toc_nodes(toc, parent_node): for each record of the list toc an
\* item holding a paragraph holding the link, then the list built of its
\* children when it has any; the item is appended to parent_node
RECURSIVE build_toc_nodes(_, _, _, _, _)

\* children = build_toc_nodes(item['children'], inner_list);
\* append_child(list_item, children)
inner_list(inner, list_item, recs, children, kids) ==
    AppendTo(build_toc_nodes(inner.heap, recs, children, kids, inner.node),
             list_item, inner.node)

\* `if item.get('children')` left out: every item gets an inner list
item_appended_AlwaysList(made, recs, children, kids, parent_node) ==
    AppendTo(inner_list(make_list_node(made.heap), made.node, recs, children, kids),
             parent_node, made.node)

\* the rest of the loop's body once the item `made` stands: its children's
\* list when it has children, then append_child(parent_node, list_item)
item_appended(made, recs, children, kids, parent_node) ==
    AppendTo(IF kids # <<>>
             THEN inner_list(make_list_node(made.heap), made.node, recs, children, kids)
             ELSE made.heap,
             parent_node, made.node)

build_toc_nodes(h, recs, children, toc, parent_node) ==
    IF toc = <<>> THEN h
    ELSE build_toc_nodes(item_appended(toc_item(h, recs[Head(toc)]), recs, children,
                                       children[Head(toc)], parent_node),
                         recs, children, Tail(toc), parent_node)

\* toc_to_nodes(toc): the heap with the fragment in it, and the fragment's
\* root, an unordered list
toc_to_nodes(h, recs, nested) ==
    LET toc_node == make_list_node(h)
    IN  [heap |-> build_toc_nodes(toc_node.heap, recs, nested.children,
                                  nested.processed, toc_node.node),
         node |-> toc_node.node]

\* render_html(root_node, 0): the markup of the tree under root_node, one
\* opening entry per node with its attributes, its children between that
\* and its closing entry
RECURSIVE RenderChildren(_, _, _)
RECURSIVE render_html(_, _)
render_html(t, n) ==
    <<[tag |-> t[n].type, list_type |-> t[n].list_type, url |-> t[n].url,
       title |-> t[n].title, literal |-> t[n].literal, level |-> t[n].level]>>
        \o RenderChildren(t, t[n].children, 1)
        \o <<[tag |-> "/", list_type |-> "no_list", url |-> <<>>, title |-> <<>>,
              literal |-> <<>>, level |-> 0]>>

RenderChildren(t, kids, k) ==
    IF k > Len(kids) THEN <<>>
    ELSE render_html(t, kids[k]) \o RenderChildren(t, kids, k + 1)

\* if self.inject: ast_tools.prepend_child(root_node, toc)
Spliced_Always(t, root_node, toc, inject) == prepend_child(t, root_node, toc).tree

Spliced_AtEnd(t, root_node, toc, inject) ==
    IF inject THEN append_child(t, root_node, toc).tree ELSE t

Spliced(t, root_node, toc, inject) ==
    IF inject THEN prepend_child(t, root_node, toc).tree ELSE t

\* process_input from `if self.inject:` on, toc being what toc_to_nodes
\* returned: the list is spliced in and rendered into self.data
process_toc(got, nested, toc, root_node, inject) ==
    LET tree == Spliced(toc.heap.tree, root_node, toc.node, inject)
    IN  [error |-> "none", heap |-> [toc.heap EXCEPT !.tree = tree],
         data |-> render_html(tree, toc.node), toc |-> toc.node,
         headings |-> got.headings, nested |-> nested,
         replaced |-> got.replaced, events |-> got.events]

\* toc = self.toc_to_nodes(nested)
process_nested(got, nested, root_node, inject) ==
    process_toc(got, nested, toc_to_nodes(got.heap, got.headings, nested),
                root_node, inject)

\* nested = self.nest_toc_items(headings)
process_headings(got, root_node, inject) ==
    process_nested(got, nest_toc_items(got.headings), root_node, inject)

\* TOCGenerator.process_input(root_node, max_depth, inject) on the tree and
\* freed set of heap h
TOC_process_input(h, root_node, max_depth, inject) ==
    IF max_depth > 6 \/ max_depth < 0
    THEN [error |-> "ValueError", heap |-> h, data |-> <<>>, toc |-> 0,
          headings |-> <<>>, nested |-> nest_toc_items(<<>>), replaced |-> <<>>,
          events |-> <<>>]
    ELSE process_headings(set_heading_attributes(h, root_node, max_depth, inject),
                          root_node, inject)

\* the blocks of the documents handed to TOCGenerator: headings of a low, a
\* middle and the highest level titled "t" or "A b", a heading with two text
\* nodes, a heading whose only content is a code span, a quoted heading
\* and a paragraph
TwoWords == <<"A", " ", "b">>

TocBlockKinds ==
    {[outer |-> "heading", mid |-> "emph", leaf |-> "text", level |-> l,
      text |-> x, more |-> <<>>] : l \in {1, 2, 6}, x \in {OneText, TwoWords}}
        \cup {[outer |-> "heading", mid |-> "emph", leaf |-> "text", level |-> 2,
                text |-> OneText, more |-> <<"u">>],
               [outer |-> "heading", mid |-> "emph", leaf |-> "code", level |-> 1,
                text |-> OneText, more |-> <<>>],
               [outer |-> "block_quote", mid |-> "heading", leaf |-> "text", level |-> 2,
                text |-> OneText, more |-> <<>>],
               [outer |-> "paragraph", mid |-> "emph", leaf |-> "text", level |-> 0,
                text |-> OneText, more |-> <<>>]}

TocTrees(n) == {MkTree(bs) : bs \in UNION {[1..k -> TocBlockKinds] : k \in 0..n}}

\* the max_depth arguments tried: the documented range 1..6 and its
\* neighbours
MaxDepths == {0 - 1, 0, 1, 2, 5, 6, 7}

InitToc ==
    /\ processors = [h \in Hooks |-> <<>>]
    /\ data = <<>>
    /\ last = [op |-> "init"]
    /\ em = EmIdle
    /\ mh = MhIdle
    /\ tg \in {[phase |-> "ready", orig |-> t, calls |-> 0] : t \in TocTrees(MaxBlocks)}
    /\ nt = NtIdle
    /\ sl = SlIdle
    /\ rn = RnIdle
    /\ wk = WkIdle

\* TOCGenerator(max_depth=max_depth, inject=inject)(root_node) on the tree
\* parsed from the document; a second call, on a new parse of the same
\* document, is made with the other value of inject
CallTOCGenerator ==
    \E max_depth \in MaxDepths, inject \in BOOLEAN :
        /\ \/ tg.calls = 0
           \/ tg.calls = 1 /\ max_depth = tg.max_depth /\ inject # tg.inject
        /\ tg' = [phase |-> "done", orig |-> tg.orig, calls |-> tg.calls + 1,
                  max_depth |-> max_depth, inject |-> inject,
                  out |-> TOC_process_input(HeapOf(tg.orig), 1, max_depth, inject),
                  prev |-> IF tg.calls = 0 THEN <<>> ELSE <<tg.out>>]
        /\ UNCHANGED <<processors, data, last, em, mh, nt, sl, rn, wk>>

NextToc == CallTOCGenerator

SpecToc == InitToc /\ [][NextToc]_vars

(***************************************************************************)
(* CommonMark.to_latex, to_commonmark, to_man (renderers.py)               *)
(***************************************************************************)
available_options ==
    {"source_pos", "hard_breaks", "unsafe", "no_breaks", "validate_utf8", "smart",
     "github_pre_lang", "liberal_html_tag", "footnotes", "strikethrough_double_tilde",
     "table_prefer_style_attributes", "full_info_string"}

\* make_options(**options): options maps each keyword given to its value;
\* the names of the options switched on, or TypeError for a keyword that is
\* not an available option (whatever its value)
make_options(options) ==
    IF \E name \in DOMAIN options : name \notin available_options
    THEN [error |-> "TypeError", on |-> {}]
    ELSE [error |-> "none", on |-> {name \in DOMAIN options : Truthy(options[name])}]

\* render(text, fmt, width=width, **options): make_options first, then the
\* hooks and the parser as in render; the renderer of fmt is given width
render_as(op, given, text, fmt, width, options) ==
    LET OPTS == make_options(options)
        pre  == _run_processors(text, "before_parse", data)
        doc  == Parse(pre.doc)
        post == _run_processors(doc, "after_parse", pre.data)
    IN  IF OPTS.error # "none"
        THEN /\ last' = [op |-> op, fmt |-> fmt, width |-> given,
                         error |-> OPTS.error, renderer_width |-> NoneVal]
             /\ UNCHANGED <<processors, data, em, mh, tg, nt, sl, rn, wk>>
        ELSE /\ data' = post.data
             /\ last' = [op |-> op, fmt |-> fmt, width |-> given,
                         error |-> "none", renderer_width |-> width]
             /\ UNCHANGED <<processors, em, mh, tg, nt, sl, rn, wk>>

\* the keyword arguments **options of a call: none, or smart=True
NoOptions == <<>>
Smart == [name \in {"smart"} |-> 1]

\* the widths asked for: the default 0 (no wrap), and 72
Widths == {0, 72}

\* return self.render(text, fmt, witdth=width, **options): width goes into
\* render's **options under the name witdth, render's own width keeps its
\* default 0
to_format(op, fmt) ==
    \E text \in 0..MaxDoc, width \in Widths, options \in {NoOptions, Smart} :
        render_as(op, width, text, fmt, 0,
                  [name \in DOMAIN options \cup {"witdth"} |->
                      IF name = "witdth" THEN width ELSE options[name]])

to_latex == to_format("to_latex", "latex")

to_commonmark == to_format("to_commonmark", "commonmark")

to_man == to_format("to_man", "man")

NextWidth ==
    \/ register_text_processor
    \/ register_ast_processor
    \/ to_latex
    \/ to_commonmark
    \/ to_man

SpecWidth == Init /\ [][NextWidth]_vars

(***************************************************************************)
(* replace_node (ast_tools.py) on the nodes of bounded documents           *)
(***************************************************************************)
\* the types of the new node: a block and an inline
NewTypes == {"html_block", "text"}

InitReplace ==
    /\ processors = [h \in Hooks |-> <<>>]
    /\ data = <<>>
    /\ last = [op |-> "init"]
    /\ em = EmIdle
    /\ mh = MhIdle
    /\ tg = TgIdle
    /\ nt = NtIdle
    /\ sl = SlIdle
    /\ rn \in {[phase |-> "ready", tree |-> t] : t \in Trees(MaxBlocks)}
    /\ wk = WkIdle

\* replace_node(old_node, new_node) with a node just made as new_node
ReplaceCall(t, old_node, type) ==
    LET made == new_node(HeapOf(t), type)
        r    == replace_node(made.heap, old_node, made.node)
    IN  [phase |-> "done", before |-> t, old_node |-> old_node,
         new_node |-> made.node, status |-> r.status, heap |-> r.heap]

CallReplaceNode ==
    /\ rn.phase = "ready"
    /\ \E old_node \in DOMAIN rn.tree, type \in NewTypes :
          rn' = ReplaceCall(rn.tree, old_node, type)
    /\ UNCHANGED <<processors, data, last, em, mh, tg, nt, sl, wk>>

NextReplace == CallReplaceNode

SpecReplace == InitReplace /\ [][NextReplace]_vars

(***************************************************************************)
(* walk (ast_tools.py): the generator and the loop that consumes it.  The  *)
(* generator's body runs only while the consumer asks for the next item;   *)
(* a consumer that stops early closes it where it is suspended, at yield.  *)
(***************************************************************************)
InitWalk ==
    /\ processors = [h \in Hooks |-> <<>>]
    /\ data = <<>>
    /\ last = [op |-> "init"]
    /\ em = EmIdle
    /\ mh = MhIdle
    /\ tg = TgIdle
    /\ nt = NtIdle
    /\ sl = SlIdle
    /\ rn = RnIdle
    /\ wk \in {[phase |-> "ready", tree |-> t, root |-> 0, it |-> new_iterator(0),
                events |-> <<>>, made |-> 0, freed |-> 0] : t \in Trees(MaxBlocks)}

\* `entering = False` done once, before the loop: it stays True after the
\* first node entered
walk_next_EnteringKept(w) ==
    LET first == w.phase = "created"
        it2   == iter_next(w.tree, IF first THEN new_iterator(w.root) ELSE w.it)
        made  == IF first THEN w.made + 1 ELSE w.made
    IN  IF it2.ev = "DONE"
        THEN [w EXCEPT !.phase = "exhausted", !.it = it2, !.made = made,
                       !.freed = @ + 1]
        ELSE [w EXCEPT !.phase = "suspended", !.it = it2, !.made = made,
                       !.events = Append(@, [node |-> it2.node,
                                             entering |-> TRUE])]

\* the generator's body from where it stands to its next yield or its end:
\* on the first request it = iter_new(root_node); then status = iter_next(it)
\* and either the yield of (node, entering) or, when the walk is done, the
\* break and free_iterator(it)
walk_next(w) ==
    LET first == w.phase = "created"
        it2   == iter_next(w.tree, IF first THEN new_iterator(w.root) ELSE w.it)
        made  == IF first THEN w.made + 1 ELSE w.made
    IN  IF it2.ev = "DONE"
        THEN [w EXCEPT !.phase = "exhausted", !.it = it2, !.made = made,
                       !.freed = @ + 1]
        ELSE [w EXCEPT !.phase = "suspended", !.it = it2, !.made = made,
                       !.events = Append(@, [node |-> it2.node,
                                             entering |-> it2.ev = "ENTER"])]

\* walk(root_node): the generator object is made, none of its body has run
WalkCall ==
    /\ wk.phase = "ready"
    /\ \E root_node \in DOMAIN wk.tree :
          wk' = [wk EXCEPT !.phase = "created", !.root = root_node]
    /\ UNCHANGED <<processors, data, last, em, mh, tg, nt, sl, rn>>

\* the consumer's loop asks for the next item
WalkResume ==
    /\ wk.phase \in {"created", "suspended"}
    /\ wk' = walk_next(wk)
    /\ UNCHANGED <<processors, data, last, em, mh, tg, nt, sl, rn>>

\* the consumer leaves its loop (return, break or an exception) before the
\* walk is done: the generator is closed where it stands, and the
\* statements after its yield never run
WalkClose ==
    /\ wk.phase \in {"created", "suspended"}
    /\ wk' = [wk EXCEPT !.phase = "closed"]
    /\ UNCHANGED <<processors, data, last, em, mh, tg, nt, sl, rn>>

NextWalk == WalkCall \/ WalkResume \/ WalkClose

SpecWalk == InitWalk /\ [][NextWalk]_vars

(***************************************************************************)
(* Claims about the pipeline (checked under Spec)                          *)
(***************************************************************************)
Remove(seq, p) == SubSeq(seq, 1, p - 1) \o SubSeq(seq, p + 1, Len(seq))

\* one hook run `run` over the entries `items` from document `input`: every
\* entry is invoked once, in order, on the document the one before returned
RunInOrder(run, items, input) ==
    /\ Len(run.calls) = Len(items)
    /\ \A k \in 1..Len(items) :
          LET c == run.calls[k]
              r == process_input(c.processor, c.given)
          IN  /\ c.name = items[k].name
              /\ c.processor = items[k].processor
              /\ c.given = (IF k = 1 THEN input ELSE run.calls[k - 1].returned)
              /\ (r.processed = NoneVal => c.returned = c.given)
              /\ (Truthy(r.processed) => c.returned = r.processed)
    /\ run.doc = (IF items = <<>> THEN input ELSE run.calls[Len(items)].returned)

\* a register call put its entry at the end (index None) or at position
\* index (0 <= index <= length), and the other entries kept their order
RegisteredInPlace ==
    LET h      == last.entrypoint
        before == last.before[h]
        now    == processors[h]
    IN  /\ Len(now) = Len(before) + 1
        /\ \E p \in 1..Len(now) : now[p] = last.item /\ Remove(now, p) = before
        /\ (~last.index.given => now[Len(now)] = last.item)
        /\ (last.index.given /\ last.index.val >= 0 /\ last.index.val <= Len(before)
              => /\ now[last.index.val + 1] = last.item
                 /\ Remove(now, last.index.val + 1) = before)
        /\ \A g \in Hooks \ {h} : processors[g] = last.before[g]

\* C1: for any sequence of register calls, running a hook invokes the
\* registered processors exactly once each in registry order (index None
\* appends, index i inserts at position i, the others keep their relative
\* order), and each processor is given the document the one before it
\* returned (the input for the first; the previous document when a processor
\* returns no replacement).
C1_PipelineOrder ==
    /\ (last.op = "register" => RegisteredInPlace)
    /\ (last.op = "render" =>
          /\ RunInOrder(last.pre, processors["before_parse"], last.text)
          /\ RunInOrder(last.post, processors["after_parse"], last.parsed))

\* a render in which an entry inserted at the front of a hook ran first and
\* its replacement document was what the second entry was given
C1_Witness ==
    /\ last.op = "render"
    /\ Len(last.pre.calls) = 2
    /\ last.pre.calls[1].returned # last.pre.calls[1].given
    /\ last.pre.calls[2].given = last.pre.calls[1].returned
    /\ last.pre.calls[1].processor # last.pre.calls[2].processor

\* the last call of `calls` under name n that extracted non-empty data (0: none)
LastWriter(calls, n) ==
    LET ks == {k \in 1..Len(calls) : calls[k].name = n /\ Truthy(calls[k].extracted)}
    IN  IF ks = {} THEN 0 ELSE CHOOSE k \in ks : \A j \in ks : j <= k

Merged(run, before) ==
    /\ DOMAIN run.data \subseteq Names
    /\ \A n \in Names :
          LET k == LastWriter(run.calls, n)
          IN  IF k # 0
              THEN n \in DOMAIN run.data /\ run.data[n] = run.calls[k].extracted
              ELSE /\ (n \in DOMAIN run.data) = (n \in DOMAIN before)
                   /\ (n \in DOMAIN before => run.data[n] = before[n])

HasName(items, n) == \E i \in 1..Len(items) : items[i].name = n

\* C3: registering a name that is already registered at the same hook is
\* rejected and leaves the registry unchanged, so the names within one
\* hook's registry are pairwise distinct.
C3_DuplicateRejected ==
    /\ (last.op = "register" /\ HasName(last.before[last.entrypoint], last.item.name)
          => processors = last.before)
    /\ \A h \in Hooks : \A i, j \in 1..Len(processors[h]) :
          i # j => processors[h][i].name # processors[h][j].name

\* C4: deregistering a registered name removes exactly that entry (the
\* others keep their order) and returns it; deregistering a name that is not
\* registered fails and leaves the registry unchanged.
C4_DeregisterRemoves ==
    last.op = "deregister" =>
        LET h      == last.entrypoint
            before == last.before[h]
        IN  IF HasName(before, last.name)
            THEN \E i \in 1..Len(before) :
                    /\ before[i].name = last.name
                    /\ processors[h] = Remove(before, i)
                    /\ last.returned = <<before[i]>>
            ELSE last.error # "none" /\ processors = last.before

\* C5: the tree handed to the renderer is the tree the post-parse hook
\* returned (the replacement, when a post-parse processor returns one).
C5_RendersFinalTree ==
    last.op = "render" => last.rendered = last.post.doc

\* C19: to_latex, to_commonmark and to_man accept a wrap width (default 0)
\* and, for valid options, complete without error and pass that width to
\* the renderer of their format.
C19_WidthPassed ==
    last.op \in {"to_latex", "to_commonmark", "to_man"} =>
        /\ last.error = "none"
        /\ last.renderer_width = last.width

(***************************************************************************)
(* Claims about ExtractMetadata (checked under SpecMeta)                   *)
(***************************************************************************)
\* the documented default loader: one pair per non-blank line, split at the
\* first ':', key and value trimmed
RECURSIVE RefPairs(_, _)
RefPairs(lines, dat) ==
    IF lines = <<>> THEN dat
    ELSE LET line == Head(lines)
             i    == Least({q \in 1..Len(line) : line[q] = ":"}, 0)
         IN  IF Strip(line) = <<>> \/ i = 0 THEN RefPairs(Tail(lines), dat)
             ELSE RefPairs(Tail(lines),
                           Update(dat, Strip(SubSeq(line, 1, i - 1)),
                                       Strip(SubSeq(line, i + 1, Len(line)))))

\* every non-blank line of a front-matter body has a ':'
WellFormed(body) ==
    \A k \in 1..Len(Split(body, "\n")) :
        LET line == Split(body, "\n")[k]
        IN  Strip(line) = <<>> \/ \E q \in 1..Len(line) : line[q] = ":"

Example == Join(<<Dash3, FooBar, Dash3, Body>>) \o <<"\n">>

\* C6: on a text that starts with a front-matter block the default loader
\* yields one key/value pair per non-blank body line, split at the first
\* ':' and trimmed; "---\nfoo: bar\n---\nbody\n" yields {"foo": "bar"} and
\* the output text "body\n".
C6_DefaultLoader ==
    em.phase = "done" =>
        LET m == Search(em.text)
        IN  /\ (m.found /\ m.start = 1 /\ WellFormed(m.group2) =>
                  /\ em.out.error = "none"
                  /\ em.out.data = RefPairs(Split(m.group2, "\n"), <<>>))
            /\ (em.text = Example =>
                  /\ em.out.error = "none"
                  /\ em.out.data = Update(<<>>, <<"f", "o", "o">>, <<"b", "a", "r">>)
                  /\ em.out.doc = Body \o <<"\n">>)

\* C7: whenever a front-matter block is found, the returned text is exactly
\* the text after the closing delimiter line, the empty remainder included.
C7_ReturnsRemainder ==
    em.phase = "done" /\ em.out.matched /\ em.out.error = "none" =>
        em.out.doc = Search(em.text).group4

\* C8: on a text without a front-matter block ExtractMetadata completes
\* without error, returns the text unchanged and returns empty data.
C8_NoFrontMatter ==
    em.phase = "done" /\ ~Search(em.text).found =>
        /\ em.out.error = "none"
        /\ em.out.doc = em.text
        /\ DOMAIN em.out.data = {}

\* C9: a front-matter block is recognised only when its opening dash line is
\* the very first line of the text: from a text that does not begin with a
\* dash line nothing is extracted and nothing is removed.
C9_OnlyAtStart ==
    em.phase = "done" /\ em.out.error = "none" /\ Delimiter(em.text, 1) = 0 =>
        /\ em.out.doc = em.text
        /\ DOMAIN em.out.data = {}

(***************************************************************************)
(* Claims about MaxHeadingLevel (checked under SpecClamp)                  *)
(***************************************************************************)
\* tree `after` is tree `before` with every heading's level clamped to
\* max_level and nothing else changed
Clamped(before, after, max_level) ==
    /\ DOMAIN after = DOMAIN before
    /\ \A n \in DOMAIN before :
          /\ after[n].type = before[n].type
          /\ after[n].literal = before[n].literal
          /\ after[n].line = before[n].line
          /\ after[n].url = before[n].url
          /\ after[n].title = before[n].title
          /\ after[n].list_type = before[n].list_type
          /\ after[n].parent = before[n].parent
          /\ after[n].children = before[n].children
          /\ after[n].level = (IF before[n].type = "heading"
                               THEN Min(before[n].level, max_level)
                               ELSE before[n].level)

\* C10: for every max_level in 1..6 and every tree, after MaxHeadingLevel
\* each heading's level is min(its previous level, max_level) and no other
\* node, attribute or link is changed; a second run with the same max_level
\* leaves the tree as the first run left it.
C10_ClampToMax ==
    mh.phase = "done" /\ mh.max_level >= 1 /\ mh.max_level <= 6 =>
        /\ mh.error = "none"
        /\ Clamped(mh.before, mh.tree, mh.max_level)
        /\ (mh.calls >= 2 /\ mh.prev_max = mh.max_level => mh.tree = mh.before)

\* a second run with max_level 4 on a tree whose level 6 heading and whose
\* quoted level 5 heading the first run with max_level 4 brought to level 4
C10_Witness ==
    /\ mh.phase = "done"
    /\ mh.calls = 2
    /\ mh.max_level = 4
    /\ mh.prev_max = 4
    /\ Len(mh.tree[1].children) = 2
    /\ mh.tree[2].type = "heading" /\ mh.orig[2].level = 6 /\ mh.tree[2].level = 4
    /\ mh.tree[6].type = "block_quote"
    /\ mh.tree[7].type = "heading" /\ mh.orig[7].level = 5 /\ mh.tree[7].level = 4
    /\ mh.tree = mh.before

\* C11: MaxHeadingLevel fails with an invalid-configuration error for every
\* max_level outside 1..6 (0 and the negative values included) and for every
\* document, one without a heading included.
C11_InvalidConfig ==
    mh.phase = "done" /\ (mh.max_level < 1 \/ mh.max_level > 6) =>
        mh.error # "none"

(***************************************************************************)
(* Claims about slugify (checked under SpecSlug)                           *)
(***************************************************************************)
\* the characters slugify turns into a break between words
IsBreak(c) == c \in {" ", "-", ".", "/", "_"}

\* the words of a text, each in lower case: the maximal runs of letters and
\* digits between breaks, every other character passed over
RECURSIVE Words(_, _)
Words(text, word) ==
    IF text = <<>> THEN (IF word = <<>> THEN <<>> ELSE <<word>>)
    ELSE LET c == Head(text)
         IN  IF IsBreak(c)
             THEN (IF word = <<>> THEN <<>> ELSE <<word>>) \o Words(Tail(text), <<>>)
             ELSE IF IsWord(c) THEN Words(Tail(text), Append(word, LowerChar(c)))
             ELSE Words(Tail(text), word)

RECURSIVE JoinWith(_, _)
JoinWith(words, sep) ==
    IF words = <<>> THEN <<>>
    ELSE IF Len(words) = 1 THEN Head(words)
    ELSE Head(words) \o <<sep>> \o JoinWith(Tail(words), sep)

\* C18: slugify lowercases, turns each space, hyphen, period and slash into
\* an underscore, deletes every non-word character, turns underscores into
\* spaces, collapses white space, trims and turns spaces into hyphens: its
\* result is the lower-case words of the text (breaks replaced before the
\* other punctuation is deleted) joined by single hyphens, and
\* slugify("Hello, World!") = "hello-world".
C18_Slugify ==
    sl.phase = "done" =>
        /\ sl.slug = JoinWith(Words(sl.text, <<>>), "-")
        /\ (sl.text = HelloWorld =>
               sl.slug = <<"h", "e", "l", "l", "o", "-", "w", "o", "r", "l", "d">>)

\* slugify has run on a text in which a comma that is deleted and a space
\* that is a break stand between an upper-case and a lower-case word
C18_Witness ==
    /\ sl.phase = "done"
    /\ sl.text = <<"A", ",", " ", "b">>
    /\ sl.slug = <<"a", "-", "b">>

(***************************************************************************)
(* Claims about nest_toc_items (checked under SpecNest)                    *)
(***************************************************************************)
\* the nearest record before record i whose level is strictly lower (0: none)
NearestLower(recs, i) ==
    LET js == {j \in 1..(i - 1) : recs[j].level < recs[i].level}
    IN  IF js = {} THEN 0 ELSE CHOOSE j \in js : \A m \in js : m <= j

\* the records whose children list holds record i
ParentsOf(nested, n, i) == {j \in 1..n : i \in Range(nested.children[j])}

\* C13: for every flat list of heading records, nest_toc_items returns a
\* forest in which each record is a child of the nearest preceding record of
\* strictly lower level, and a root when there is none (level gaps and a
\* first heading that is not the minimum included);
\* [H1 A, H2 B, H2 C, H1 D] nests as roots A (children B, C) and D.
C13_NestedUnderNearestLower ==
    nt.phase = "done" =>
        LET recs == nt.toc_list
            n    == Len(recs)
        IN  /\ \A i \in 1..n :
                  IF NearestLower(recs, i) = 0
                  THEN i \in Range(nt.nested.processed) /\ ParentsOf(nt.nested, n, i) = {}
                  ELSE /\ i \notin Range(nt.nested.processed)
                       /\ ParentsOf(nt.nested, n, i) = {NearestLower(recs, i)}
            /\ (n = 4 /\ [k \in 1..4 |-> recs[k].level] = <<1, 2, 2, 1>> =>
                  /\ nt.nested.processed = <<1, 4>>
                  /\ nt.nested.children = <<(<<2, 3>>), <<>>, <<>>, <<>> >>)

\* nest_toc_items has run on [H2, H1, H3, H2]: a first heading that is not
\* the minimum level, a level gap under the H1, and a step back to a level
\* between the two, which still nests under the H1
C13_Witness ==
    /\ nt.phase = "done"
    /\ [k \in 1..Len(nt.toc_list) |-> nt.toc_list[k].level] = <<2, 1, 3, 2>>
    /\ nt.nested.processed = <<1, 2>>
    /\ nt.nested.children[2] = <<3, 4>>

(***************************************************************************)
(* Claims about TOCGenerator (checked under SpecToc)                       *)
(***************************************************************************)
\* C12: TOCGenerator rejects every max_depth outside 1..6 (0 included) with
\* an error, and when it rejects it has replaced no heading, created no
\* fragment and inserted nothing into the document tree.
C12_RejectsBadDepth ==
    tg.phase = "done" /\ (tg.max_depth < 1 \/ tg.max_depth > 6) =>
        /\ tg.out.error # "none"
        /\ tg.out.heap.tree = tg.orig
        /\ tg.out.heap.freed = {}
        /\ tg.out.toc = 0

\* the node that stands where node n of the parsed document stood: its
\* replacement when it was replaced, else n itself
StandsFor(replaced, n) ==
    LET js == {j \in 1..Len(replaced) : replaced[j].old = n}
    IN  IF js = {} THEN n ELSE replaced[CHOOSE j \in js : TRUE].new

\* C14: with inject=true and a valid max_depth, after TOCGenerator runs the
\* synthesized TOC list is the first child of the document root, and the
\* root's previous children follow it in their original order, each
\* replaced heading's place taken by its replacement.
C14_TocPrepended ==
    tg.phase = "done" /\ tg.inject /\ tg.max_depth >= 1 /\ tg.max_depth <= 6 =>
        LET t    == tg.out.heap.tree
            kids == t[1].children
            old  == tg.orig[1].children
        IN  /\ tg.out.error = "none"
            /\ Len(kids) = Len(old) + 1
            /\ kids[1] = tg.out.toc
            /\ t[tg.out.toc].type = "list"
            /\ \A k \in 1..Len(kids) : t[kids[k]].parent = 1
            /\ \A k \in 1..Len(old) :
                  /\ kids[k + 1] = StandsFor(tg.out.replaced, old[k])
                  /\ kids[k + 1] \notin tg.out.heap.freed
                  /\ (kids[k + 1] # old[k] =>
                        /\ tg.orig[old[k]].type = "heading"
                        /\ t[kids[k + 1]].type = "html_block")

\* TOCGenerator has run with inject=true and max_depth 6 on a paragraph
\* followed by a heading: the list comes first, the paragraph second, the
\* heading's replacement third
C14_Witness ==
    /\ tg.phase = "done" /\ tg.inject /\ tg.max_depth = 6
    /\ Len(tg.orig[1].children) = 2
    /\ tg.orig[2].type = "paragraph"
    /\ tg.orig[6].type = "heading"
    /\ LET kids == tg.out.heap.tree[1].children
       IN  /\ Len(kids) = 3
           /\ kids[1] = tg.out.toc
           /\ kids[2] = 2
           /\ tg.out.heap.tree[kids[3]].type = "html_block"
           /\ 6 \in tg.out.heap.freed

\* the link nodes of the fragment under node n
Links(t, n) == {m \in Subtree(t, n) : t[m].type = "link"}

\* C15: with inject=false TOCGenerator leaves the document tree unchanged
\* (no heading replaced, no node added to or removed from the document),
\* and the data is the markup of the synthesized fragment, equal to the data
\* a run with inject=true gives on the same document.
C15_NoInjectFrame ==
    /\ (tg.phase = "done" /\ ~tg.inject /\ tg.out.error = "none" =>
          LET t == tg.out.heap.tree
          IN  /\ \A n \in DOMAIN tg.orig : t[n] = tg.orig[n]
              /\ Subtree(t, 1) = DOMAIN tg.orig
              /\ tg.out.heap.freed = {}
              /\ tg.out.replaced = <<>>
              /\ tg.out.data = render_html(t, tg.out.toc)
              /\ t[tg.out.toc].parent = 0)
    /\ (tg.phase = "done" /\ tg.calls = 2 /\ tg.out.error = "none" =>
          /\ tg.prev[1].error = "none"
          /\ tg.out.data = tg.prev[1].data)

\* a run with inject=false after a run with inject=true on the same
\* document with two headings: the same data with two links in it, the
\* tree as parsed
C15_Witness ==
    /\ tg.phase = "done" /\ tg.calls = 2 /\ ~tg.inject /\ tg.max_depth = 6
    /\ tg.out.error = "none"
    /\ Len(tg.out.headings) = 2
    /\ Cardinality(Links(tg.out.heap.tree, tg.out.toc)) = 2
    /\ tg.prev[1].replaced # <<>>
    /\ tg.out.data = tg.prev[1].data
    /\ \A n \in DOMAIN tg.orig : tg.out.heap.tree[n] = tg.orig[n]

\* C16: with inject=true, headings whose level is greater than max_depth
\* are left untouched: they stay heading nodes with their level and
\* children, are not replaced by raw-markup nodes and are not destroyed.
C16_DeepHeadingsUntouched ==
    tg.phase = "done" /\ tg.inject /\ tg.max_depth >= 1 /\ tg.out.error = "none" =>
        \A n \in DOMAIN tg.orig :
            tg.orig[n].type = "heading" /\ tg.orig[n].level > tg.max_depth =>
                /\ n \notin tg.out.heap.freed
                /\ tg.out.heap.tree[n] = tg.orig[n]
                /\ \A j \in 1..Len(tg.out.replaced) : tg.out.replaced[j].old # n

\* C17: any two headings of one document that have identical text but
\* different start lines get distinct anchor ids, and distinct TOC hrefs:
\* the replacements of such headings carry as many ids, and the links
\* titled with that text as many hrefs, as there are lines.
C17_AnchorsDistinct ==
    tg.phase = "done" /\ tg.out.error = "none" =>
        LET t == tg.out.heap.tree
        IN  /\ \A i, j \in 1..Len(tg.out.replaced) :
                  LET a == tg.out.replaced[i]
                      b == tg.out.replaced[j]
                  IN  /\ t[a.new].literal = HeadingMarkup(a.level, a.id, a.text)
                      /\ (a.text = b.text /\ a.line_number # b.line_number =>
                            /\ a.id # b.id
                            /\ t[a.new].literal # t[b.new].literal)
            /\ \A i \in 1..Len(tg.out.headings) :
                  LET x == tg.out.headings[i].text
                  IN  Cardinality({t[n].url : n \in {m \in Links(t, tg.out.toc) :
                                                       t[m].title = x}})
                        = Cardinality({tg.out.headings[j].line_number :
                                         j \in {k \in 1..Len(tg.out.headings) :
                                                  tg.out.headings[k].text = x}})

\* TOCGenerator has run with inject=true on two headings titled "t" on
\* lines 1 and 2: ids "1-t" and "2-t", hrefs "#1-t" and "#2-t"
C17_Witness ==
    /\ tg.phase = "done" /\ tg.inject /\ tg.out.error = "none"
    /\ Len(tg.out.replaced) = 2
    /\ tg.out.replaced[1].text = OneText /\ tg.out.replaced[2].text = OneText
    /\ tg.out.replaced[1].id = <<"1", "-", "t">>
    /\ tg.out.replaced[2].id = <<"2", "-", "t">>
    /\ {tg.out.heap.tree[n].url : n \in Links(tg.out.heap.tree, tg.out.toc)}
         = {<<"#", "1", "-", "t">>, <<"#", "2", "-", "t">>}

(***************************************************************************)
(* Claims about replace_node (checked under SpecReplace)                   *)
(***************************************************************************)
\* C20: replace_node(old, new) either puts new where old stood and then
\* destroys old's subtree, or, when the substitution fails (old has no
\* parent), reports failure and leaves old and its tree unchanged and not
\* destroyed: old is never destroyed without new having taken its place.
C20_ReplaceOrKeep ==
    rn.phase = "done" =>
        LET t   == rn.heap.tree
            p   == rn.before[rn.old_node].parent
        IN  IF rn.status = 1
            THEN /\ p # 0
                 /\ t[rn.new_node].parent = p
                 /\ IndexOf(t[p].children, rn.new_node)
                      = IndexOf(rn.before[p].children, rn.old_node)
                 /\ rn.heap.freed = Subtree(rn.before, rn.old_node)
            ELSE /\ rn.heap.freed = {}
                 /\ \A n \in DOMAIN rn.before : t[n] = rn.before[n]

(***************************************************************************)
(* Claims about walk (checked under SpecWalk)                              *)
(***************************************************************************)
\* the positions at which node n is yielded entering, and not entering
Enters(ev, n) == {k \in 1..Len(ev) : ev[k].node = n /\ ev[k].entering}
Exits(ev, n) == {k \in 1..Len(ev) : ev[k].node = n /\ ~ev[k].entering}

\* C21: a finished walk(root) ends with the root's exit; every node under
\* the root was yielded exactly once entering and exactly once exiting, the
\* enter before the exit; and no parent's exit precedes an exit of one of
\* its children
C21_WalkCoverage ==
    wk.phase = "exhausted" =>
        LET ev == wk.events
            S  == Subtree(wk.tree, wk.root)
        IN  /\ ev # <<>>
            /\ ev[Len(ev)] = [node |-> wk.root, entering |-> FALSE]
            /\ \A k \in 1..Len(ev) : ev[k].node \in S
            /\ \A n \in S :
                  /\ Cardinality(Enters(ev, n)) = 1
                  /\ Cardinality(Exits(ev, n)) = 1
                  /\ \A a \in Enters(ev, n), b \in Exits(ev, n) : a < b
            /\ \A n \in S : \A c \in Range(wk.tree[n].children) :
                  \A a \in Exits(ev, n), b \in Exits(ev, c) : b < a

\* C21 (amended): the walk never yields more than two events per node under
\* the root; when it is finished its last event is the root's exit (the
\* root's enter when the root is a leaf type), every node under the root
\* was yielded exactly once entering, a node of a container type exactly
\* once exiting after its enter, a node of a leaf type never exiting, and
\* everything yielded for a child lies between its parent's enter and exit
C21_WalkCoverageContainers ==
    LET ev == wk.events
        S  == IF wk.root = 0 THEN {} ELSE Subtree(wk.tree, wk.root)
        IsLeaf(n) == wk.tree[n].type \in LeafTypes
    IN  /\ Len(ev) <= 2 * Cardinality(S)
        /\ wk.phase = "exhausted" =>
            /\ ev # <<>>
            /\ ev[Len(ev)] = [node |-> wk.root, entering |-> IsLeaf(wk.root)]
            /\ \A k \in 1..Len(ev) : ev[k].node \in S
            /\ \A n \in S :
                  /\ Cardinality(Enters(ev, n)) = 1
                  /\ IF IsLeaf(n) THEN Exits(ev, n) = {}
                     ELSE /\ Cardinality(Exits(ev, n)) = 1
                          /\ \A a \in Enters(ev, n), b \in Exits(ev, n) : a < b
            /\ \A n \in S : \A c \in Range(wk.tree[n].children) :
                  \A k \in Enters(ev, c) \cup Exits(ev, c) :
                      /\ \A a \in Enters(ev, n) : a < k
                      /\ \A b \in Exits(ev, n) : k < b

\* a finished walk of a whole document of two blocks: containers nested
\* three deep and text leaves
C21_Witness ==
    /\ wk.phase = "exhausted"
    /\ wk.root = 1
    /\ Len(wk.tree[1].children) = 2
    /\ \E n \in DOMAIN wk.tree :
          /\ wk.tree[n].type = "text"
          /\ wk.tree[wk.tree[n].parent].type = "emph"
          /\ Enters(wk.events, n) # {}
    /\ Exits(wk.events, 1) # {}

\* C27: once the consumer is through with a walk, whether the walk ran to
\* its end or the consumer stopped early, every iterator the walk made has
\* been freed, exactly once
C27_IteratorFreed ==
    wk.phase \in {"exhausted", "closed"} => wk.freed = wk.made

(***************************************************************************)
(* Further claims about TOCGenerator (checked under SpecToc)               *)
(***************************************************************************)
\* the nodes under n, n first, each before its children, left to right
RECURSIVE Preorder(_, _)
RECURSIVE PreorderAll(_, _, _)
Preorder(t, n) == <<n>> \o PreorderAll(t, t[n].children, 1)

PreorderAll(t, kids, k) ==
    IF k > Len(kids) THEN <<>>
    ELSE Preorder(t, kids[k]) \o PreorderAll(t, kids, k + 1)

\* the entries of seq that are in S, in their order
RECURSIVE Keep(_, _)
Keep(seq, S) ==
    IF seq = <<>> THEN <<>>
    ELSE (IF Head(seq) \in S THEN <<Head(seq)>> ELSE <<>>) \o Keep(Tail(seq), S)

\* the text nodes under n in document order
TextNodes(t, n) == Keep(Preorder(t, n), {m \in DOMAIN t : t[m].type = "text"})

\* C22: the records collected are, in document order, one for every
\* heading of a level not beyond max_depth (that has a text node under
\* it): its level, the literal of the first text node under it, its line
C22_OneRecordPerHeading ==
    (tg.phase = "done" /\ tg.out.error = "none") =>
        LET t     == tg.orig
            heads == Keep(Preorder(t, 1),
                          {n \in DOMAIN t : /\ t[n].type = "heading"
                                            /\ t[n].level <= tg.max_depth
                                            /\ TextNodes(t, n) # <<>>})
        IN  tg.out.headings =
                [k \in 1..Len(heads) |->
                    [level |-> t[heads[k]].level,
                     text |-> t[TextNodes(t, heads[k])[1]].literal,
                     line_number |-> t[heads[k]].line]]

(***************************************************************************)
(* Further claims about nest_toc_items (checked under SpecNest)            *)
(***************************************************************************)
\* C23: in the forest nest_toc_items returns, any two records that are
\* children of the same parent record have equal levels
C23_SiblingsLevelEqual ==
    nt.phase = "done" =>
        \A p \in 1..Len(nt.toc_list) :
            \A a, b \in Range(nt.nested.children[p]) :
                nt.toc_list[a].level = nt.toc_list[b].level

\* no record of the list is more than one level deeper than the one before
NoLevelSkipped(recs) ==
    \A k \in 2..Len(recs) : recs[k].level <= recs[k - 1].level + 1

\* C23 (amended): the children of one parent record all have a level
\* deeper than the parent's, and from one child to the next the level never
\* gets deeper; when no heading of the list is more than one level deeper
\* than the heading before it, any two children of the same parent have
\* equal levels
C23_SiblingsLevelEqualNoSkip ==
    nt.phase = "done" =>
        LET recs == nt.toc_list
        IN  \A p \in 1..Len(recs) :
                LET kids == nt.nested.children[p]
                IN  /\ \A k \in 1..Len(kids) : recs[kids[k]].level > recs[p].level
                    /\ \A k \in 2..Len(kids) :
                          recs[kids[k]].level <= recs[kids[k - 1]].level
                    /\ NoLevelSkipped(recs) =>
                          \A a, b \in Range(kids) : recs[a].level = recs[b].level

\* nest_toc_items has run on [H1, H2, H3, H2]: no level skipped, and the
\* last H2 is a sibling of the first one under the H1
C23_Witness ==
    /\ nt.phase = "done"
    /\ [k \in 1..Len(nt.toc_list) |-> nt.toc_list[k].level] = <<1, 2, 3, 2>>
    /\ nt.nested.children[1] = <<2, 4>>
    /\ nt.nested.children[2] = <<3>>

\* the records of a forest, each before its children, the lists left to
\* right
RECURSIVE ForestOrder(_, _, _)
ForestOrder(children, list, k) ==
    IF k > Len(list) THEN <<>>
    ELSE <<list[k]>> \o ForestOrder(children, children[list[k]], 1)
                      \o ForestOrder(children, list, k + 1)

\* C28: every record of the input list is in the forest nest_toc_items
\* returns exactly once, and reading the forest with each record before
\* its children, left to right, gives the records in their input order
C28_ForestKeepsRecords ==
    nt.phase = "done" =>
        ForestOrder(nt.nested.children, nt.nested.processed, 1)
            = [k \in 1..Len(nt.toc_list) |-> k]

\* nest_toc_items has run on [H2, H3, H1, H2]: two roots, each with one
\* child
C28_Witness ==
    /\ nt.phase = "done"
    /\ [k \in 1..Len(nt.toc_list) |-> nt.toc_list[k].level] = <<2, 3, 1, 2>>
    /\ nt.nested.processed = <<1, 3>>
    /\ nt.nested.children[1] = <<2>>
    /\ nt.nested.children[3] = <<4>>

\* the list node `list` of tree t has the shape of the forest list `toc`:
\* an unordered list with one item per record, in order; in each item a
\* paragraph holding only the record's link, which holds only the text;
\* after the paragraph a list of the same shape for the record's children
\* when it has any, and nothing when it has none
RECURSIVE SameShape(_, _, _, _, _)
SameShape(t, list, recs, children, toc) ==
    /\ t[list].type = "list" /\ t[list].list_type = "bullet_list"
    /\ Len(t[list].children) = Len(toc)
    /\ \A k \in 1..Len(toc) :
          LET item == t[list].children[k]
              rec  == recs[toc[k]]
              kids == children[toc[k]]
          IN  /\ t[item].type = "item" /\ t[item].parent = list
              /\ Len(t[item].children) = (IF kids = <<>> THEN 1 ELSE 2)
              /\ LET paragraph == t[item].children[1]
                 IN  /\ t[paragraph].type = "paragraph"
                     /\ t[paragraph].parent = item
                     /\ Len(t[paragraph].children) = 1
                     /\ LET link == t[paragraph].children[1]
                        IN  /\ t[link].type = "link" /\ t[link].parent = paragraph
                            /\ t[link].url = <<"#">> \o Decimal(rec.line_number)
                                               \o <<"-">> \o slugify(rec.text)
                            /\ t[link].title = rec.text
                            /\ Len(t[link].children) = 1
                            /\ t[t[link].children[1]].type = "text"
                            /\ t[t[link].children[1]].literal = rec.text
                            /\ t[t[link].children[1]].children = <<>>
              /\ kids # <<>> =>
                    /\ t[t[item].children[2]].parent = item
                    /\ SameShape(t, t[item].children[2], recs, children, kids)

\* C24: the fragment toc_to_nodes makes has the shape of the forest it is
\* given: one unordered list, an item per record in order, in each item a
\* paragraph holding a link with href "#{line}-{slug(text)}" and title and
\* text equal to the record's text, and after the paragraph a nested list
\* built the same way exactly when the record has children
C24_FragmentShape ==
    (tg.phase = "done" /\ tg.out.error = "none") =>
        /\ SameShape(tg.out.heap.tree, tg.out.toc, tg.out.headings,
                     tg.out.nested.children, tg.out.nested.processed)
        /\ tg.out.toc \notin tg.out.heap.freed

\* TOCGenerator has run on "# A b" followed by "## t": one item for the
\* first heading with href "#1-a-b", and under it a list with one item
C24_Witness ==
    /\ tg.phase = "done" /\ tg.out.error = "none"
    /\ Len(tg.out.headings) = 2
    /\ tg.out.headings[1].text = TwoWords
    /\ tg.out.nested.processed = <<1>>
    /\ tg.out.nested.children[1] = <<2>>
    /\ LET t    == tg.out.heap.tree
           item == t[tg.out.toc].children[1]
       IN  /\ Len(t[item].children) = 2
           /\ t[t[t[item].children[1]].children[1]].url
                = <<"#", "1", "-", "a", "-", "b">>
           /\ Len(t[t[item].children[2]].children) = 1

\* what a walk of the tree t under n yields when nothing is changed on the
\* way: n entering, then what its children yield, then n not entering,
\* and for a node of a leaf type n entering only
RECURSIVE WalkOf(_, _)
RECURSIVE WalkOfAll(_, _, _)
WalkOf(t, n) ==
    IF t[n].type \in LeafTypes THEN <<[node |-> n, entering |-> TRUE]>>
    ELSE <<[node |-> n, entering |-> TRUE]>> \o WalkOfAll(t, t[n].children, 1)
            \o <<[node |-> n, entering |-> FALSE]>>

WalkOfAll(t, kids, k) ==
    IF k > Len(kids) THEN <<>>
    ELSE WalkOf(t, kids[k]) \o WalkOfAll(t, kids, k + 1)

\* C25: in the collect pass with inject=true a heading is replaced and
\* destroyed at its own exit event only (after its enter and everything
\* under it); the outer walk never yields a destroyed node, and it yields
\* the nodes of the document exactly as a walk without replacements does
C25_ReplacedAtExitOnly ==
    (tg.phase = "done" /\ tg.inject /\ tg.out.error = "none") =>
        LET ev == tg.out.events
        IN  /\ \A j \in 1..Len(tg.out.replaced) :
                  LET r == tg.out.replaced[j]
                  IN  /\ r.at \in 1..Len(ev)
                      /\ ev[r.at].node = r.old /\ ~ev[r.at].entering
                      /\ \E k \in 1..(r.at - 1) : ev[k].node = r.old /\ ev[k].entering
                      /\ \A k \in 1..Len(ev) :
                            ev[k].node \in Subtree(tg.orig, r.old) => k <= r.at
                      /\ r.old \in tg.out.heap.freed
            /\ \A k \in 1..Len(ev) : ev[k].live
            /\ [k \in 1..Len(ev) |-> [node |-> ev[k].node, entering |-> ev[k].entering]]
                  = WalkOf(tg.orig, 1)

\* TOCGenerator has run with inject=true on a heading followed by a quoted
\* heading: both were replaced, the second after the first was destroyed,
\* and the walk went on to the end of the document
C25_Witness ==
    /\ tg.phase = "done" /\ tg.inject /\ tg.out.error = "none"
    /\ Len(tg.out.replaced) = 2
    /\ tg.orig[6].type = "block_quote"
    /\ tg.out.replaced[1].old = 2 /\ tg.out.replaced[2].old = 7
    /\ tg.out.replaced[1].status = 1 /\ tg.out.replaced[2].status = 1
    /\ tg.out.replaced[1].at < tg.out.replaced[2].at
    /\ tg.out.heap.freed = Subtree(tg.orig, 2) \cup Subtree(tg.orig, 7)
    /\ tg.out.events[Len(tg.out.events)].node = 1

\* C29: with inject=true every link of the fragment was collected from a
\* heading that was replaced, and the link's href without its '#' is the
\* id in the markup of the node that stands in the document for that
\* heading
C29_LinksHitAnchors ==
    (tg.phase = "done" /\ tg.inject /\ tg.out.error = "none") =>
        LET t == tg.out.heap.tree
        IN  \A m \in Links(t, tg.out.toc) :
                \E i \in 1..Len(tg.out.headings), j \in 1..Len(tg.out.replaced) :
                    LET rec == tg.out.headings[i]
                        r   == tg.out.replaced[j]
                    IN  /\ t[m].title = rec.text
                        /\ t[m].url = <<"#">> \o Decimal(rec.line_number) \o <<"-">>
                                        \o slugify(rec.text)
                        /\ r.line_number = rec.line_number
                        /\ r.status = 1
                        /\ r.new \in Subtree(t, 1)
                        /\ t[r.new].literal = HeadingMarkup(r.level, r.id, r.text)
                        /\ Tail(t[m].url) = r.id

\* C26: after a TOCGenerator run, with inject true or false, every node
\* the processor made is attached to the document tree or destroyed, so
\* that once render has freed the document (node_free(doc)) every node the
\* processor made is destroyed
C26_NoNodeLeaked ==
    (tg.phase = "done" /\ tg.max_depth >= 1 /\ tg.out.error = "none") =>
        LET h       == tg.out.heap
            created == DOMAIN h.tree \ DOMAIN tg.orig
        IN  /\ \A n \in created : n \in Subtree(h.tree, 1) \/ n \in h.freed
            /\ \A n \in created : n \in free_node(h, 1).freed

(***************************************************************************)
(* A further claim about the pipeline (checked under Spec)                 *)
(***************************************************************************)
\* the invocations of one render, both hooks in order
CallsOf(r) == r.pre.calls \o r.post.calls

\* C30: the result map is never cleared: in every step an entry of the map
\* stays in it, and it changes only in a render in which a processor
\* registered under its name produced non-empty data, to the data of the
\* last such processor; a render whose processors produce empty data for
\* the name returns the map with the entry as it was
C30_DataNeverCleared ==
    [][\A n \in DOMAIN data :
          /\ n \in DOMAIN data'
          /\ (last'.op = "render" /\ last' # last) =>
                /\ last'.result = data'
                /\ LET hits == {k \in 1..Len(CallsOf(last')) :
                                  /\ CallsOf(last')[k].name = n
                                  /\ Truthy(CallsOf(last')[k].extracted)}
                   IN  IF hits = {} THEN data'[n] = data[n]
                       ELSE data'[n] = CallsOf(last')[CHOOSE k \in hits :
                                           \A m \in hits : m <= k].extracted
          /\ (last'.op # "render" \/ last' = last) => data'[n] = data[n]]_vars

\* a render whose processor registered as "meta" produced empty data
\* returned the map with the entry an earlier render wrote under "meta"
C30_Witness ==
    /\ last.op = "render"
    /\ "meta" \in DOMAIN last.data0
    /\ \E k \in 1..Len(CallsOf(last)) : CallsOf(last)[k].name = "meta"
    /\ \A k \in 1..Len(CallsOf(last)) :
          CallsOf(last)[k].name = "meta" => ~Truthy(CallsOf(last)[k].extracted)
    /\ "meta" \in DOMAIN last.result
    /\ last.result["meta"] = last.data0["meta"]
    /\ data = last.result

====
